---------------------------- MODULE Spec2Model ----------------------------
(***************************************************************************)
(* Model of BLEWBANDataGenerator (src/src/data/bleWbanDataGenerator.ts):   *)
(* the frame synthesizer, the vitals derivation with its per-device        *)
(* last-reading map, the aggregation and the network-reading orchestration.*)
(*                                                                         *)
(* Numbers are fixed point.  A draw of Math.random() is an integer r in    *)
(* 0..999 standing for r/1000 in [0,1).  Pre-scaling vitals are held in    *)
(* units of 1/Unit (1e-4), which makes every formula of the source exact   *)
(* for such draws.  Stored vitals are what the source stores: integers for *)
(* heart rate, pressure and oxygen saturation, tenths for temperature.     *)
(* Battery level is in hundredths of a percent, rssi in thousandths of a   *)
(* dBm and signalStrength in units of 1/4000 percent.                      *)
(***************************************************************************)
EXTENDS Integers, Sequences, FiniteSets, TLC

VARIABLES
    frameCounter,        \* private frameCounter
    lastReadings,        \* private lastReadings: Map<string, VitalSignsReading>
    signalNoiseFactors,  \* private signalNoiseFactors: Map<string, number>
    ret,                 \* the last call: its name, arguments, locals and return value
    calls,               \* history: how many calls of each method were made
    batteryLog,          \* history: the batteryLevel of the readings returned last
    twin,                \* a second generator, constructed with the same draws and
                         \* called after the first with the same arguments, clock and
                         \* draws: its three fields and `out`, its last return value
    monitoring,          \* the PatientMonitoring component: its state, its interval
                         \* timers and what it rendered last
    page                 \* the Index page and the MedicalStaffLogin form in it: their
                         \* state, the pending login timeouts and the history of
                         \* submitted logins and logouts

vars == <<frameCounter, lastReadings, signalNoiseFactors, ret, calls, batteryLog, twin,
          monitoring, page>>

----------------------------------------------------------------------------
(* Fixed point scales. *)

\* pre-scaling vitals are integers in units of 1/Unit
Unit == 100 * 100
\* a draw r stands for r / RandomScale
RandomScale == 10 * 100

----------------------------------------------------------------------------
(* Static data. *)

WBAN_POSITIONS ==
    << [id |-> "chest",      name |-> "Chest ECG",    position |-> "chest",      priority |-> 1],
       [id |-> "wrist_l",    name |-> "Left Wrist",   position |-> "wrist",      priority |-> 2],
       [id |-> "wrist_r",    name |-> "Right Wrist",  position |-> "wrist",      priority |-> 2],
       [id |-> "head",       name |-> "Head Monitor", position |-> "head",       priority |-> 3],
       [id |-> "arm_l",      name |-> "Left Arm BP",  position |-> "arm",        priority |-> 2],
       [id |-> "torso_back", name |-> "Back Monitor", position |-> "torso_back", priority |-> 4] >>

BLE_CHANNELS ==
    << 0, 1, 2, 3, 4, 5, 6, 7, 8, 9, 10, 12, 13, 14, 15, 16, 17, 18, 19, 20,
       21, 22, 23, 24, 25, 26, 27, 28, 29, 30, 31, 32, 33, 34, 35, 36, 37, 38, 39 >>

\* the position type of BLEWBANFrame
Positions == {"head", "arm", "wrist", "chest", "torso_front", "torso_back"}

----------------------------------------------------------------------------
(* JavaScript primitives. *)

\* Math.max(lo, Math.min(hi, x))
Clamp(x, lo, hi) == IF x < lo THEN lo ELSE IF x > hi THEN hi ELSE x

\* Math.round (a faulty variant: the fraction is cut off, as Math.floor does)
MathRound_floor(num, den) == num \div den

\* Math.round(num / den) for den > 0: the nearest integer, halves upwards
MathRound(num, den) == (2 * num + den) \div (2 * den)

\* Math.floor(r * n) for a draw r
FloorDraw(r, n) == (r * n) \div RandomScale

\* an optional number (x?.field): <<>> is undefined, <<v>> is v
undefined == << >>

\* lastValue || dflt : undefined and 0 are falsy
OrDefault(opt, dflt) == IF opt = undefined THEN dflt
                        ELSE IF opt[1] = 0 THEN dflt ELSE opt[1]

\* Map.get / Map.has on a map held as a function
MapHas(map, key) == key \in DOMAIN map

\* Map.set (a faulty variant: the map is replaced by one holding the new entry only)
MapSet_fresh(map, key, value) == key :> value

\* Map.set
MapSet(map, key, value) == (key :> value) @@ map

----------------------------------------------------------------------------
(* constructor *)

\* a noise factor is held in units of 1/NoiseScale
NoiseScale == 100 * 100

\* Math.random() * 0.1 + 0.9 for a draw r: a factor in [0.9, 1.0)
NoiseFactorOf(r) == (r * NoiseScale) \div (10 * RandomScale) + (9 * NoiseScale) \div 10

\* WBAN_POSITIONS.forEach(pos => signalNoiseFactors.set(pos.id, ...)), the i-th
\* entry with the i-th draw of rs
ConstructNoiseFactors(rs) ==
    [id \in {WBAN_POSITIONS[i].id : i \in DOMAIN WBAN_POSITIONS} |->
        LET i == CHOOSE j \in DOMAIN WBAN_POSITIONS : WBAN_POSITIONS[j].id = id
        IN  NoiseFactorOf(rs[i])]

----------------------------------------------------------------------------
(* generateBLEFrame *)

\* Math.random() > 0.7 ? '9dbm' : Math.random() > 0.5 ? '6dbm' : '3dbm'
TxPowerOf(r1, r2) == IF r1 * 10 > 7 * RandomScale THEN "9dbm"
                     ELSE IF r2 * 10 > 5 * RandomScale THEN "6dbm" ELSE "3dbm"

\* channel (a faulty variant: the channel is the index itself, 0 .. 39)
ChannelOf_contiguous(r) == FloorDraw(r, 40)

\* BLE_CHANNELS[Math.floor(Math.random() * BLE_CHANNELS.length)]
ChannelOf(r) == BLE_CHANNELS[FloorDraw(r, Len(BLE_CHANNELS)) + 1]

\* 2402000000 + channel * 2000000, held in kHz
FrequencyOf(channel) == 2402000 + channel * 2000

\* this.signalNoiseFactors.get(deviceId) || 1 (a faulty variant: the fallback is
\* the least factor of the constructor, 0.9)
NoiseLevelOf_leastFactor(factors, deviceId) ==
    IF MapHas(factors, deviceId) /\ factors[deviceId] # 0
    THEN factors[deviceId] ELSE (9 * NoiseScale) \div 10

\* this.signalNoiseFactors.get(deviceId) || 1
NoiseLevelOf(factors, deviceId) ==
    IF MapHas(factors, deviceId) /\ factors[deviceId] # 0
    THEN factors[deviceId] ELSE NoiseScale

\* the rssi (a faulty variant: baseRSSI is -70)
RssiOf_weakBase(r, noiseLevel) ==
    -70 * 1000 + (((r * 20 * 1000) \div RandomScale - 10 * 1000) * NoiseScale) \div noiseLevel

\* baseRSSI + (Math.random() * 20 - 10) * (1 / noiseLevel), in thousandths of a dBm
RssiOf(r, noiseLevel) ==
    -40 * 1000 + (((r * 20 * 1000) \div RandomScale - 10 * 1000) * NoiseScale) \div noiseLevel

\* Math.max(0, Math.min(100, (rssi + 100) * 1.25)), in units of 1/4000 percent
SignalStrengthOf(rssi) == Clamp((rssi + 100 * 1000) * 5, 0, 100 * 4000)

\* Math.random() > 0.05
FrameDecodedOf(r) == r * 100 > 5 * RandomScale

\* this.frameCounter++ (a faulty variant: the increment is forgotten)
IncrementFrameCounter_forgotten(fc) == fc

\* this.frameCounter++
IncrementFrameCounter(fc) == fc + 1

\* the frame generateBLEFrame returns once the counter has become fc; d holds
\* the draws of Math.random(), now is Date.now().  The draw of frameLength
\* (line 68) is not used by the source.  The arrays take one draw each, which
\* all their elements share.
BLEFrameOf(fc, factors, deviceId, position, now, d) ==
    LET channel == ChannelOf(d.ch)
        rssi    == RssiOf(d.rssi, NoiseLevelOf(factors, deviceId))
    IN  [ frameNumber    |-> fc,
          timestamp      |-> now,
          deviceId       |-> deviceId,
          position       |-> position,
          txPower        |-> TxPowerOf(d.tx1, d.tx2),
          antenna        |-> FloorDraw(d.ant, 4) + 1,
          frequency      |-> FrequencyOf(channel),
          channelNumber  |-> channel,
          rssi           |-> rssi,
          signalStrength |-> SignalStrengthOf(rssi),
          frameDecoded   |-> FrameDecodedOf(d.dec),
          bitLength      |-> FloorDraw(d.bit, 100) + 150,
          \* (Math.random() * 0.03 - 0.015) five times, in units of 1e-5
          maxGradientUnwrappedPhase |-> [k \in 1..5 |-> d.phase * 3 - 1500],
          \* (Math.random() - 0.5) * 0.02 ten times each, in units of 1e-5
          iComponent     |-> [k \in 1..10 |-> (d.i - 500) * 2],
          qComponent     |-> [k \in 1..10 |-> (d.q - 500) * 2] ]

----------------------------------------------------------------------------
(* extractVitalSigns *)

\* the classification (a faulty variant: a failed decode is not looked at)
SignalQualityOf_ignoresDecode(bleFrame) ==
    IF bleFrame.rssi < -70 * 1000 THEN "poor"
    ELSE IF bleFrame.rssi < -60 * 1000 THEN "fair"
    ELSE IF bleFrame.rssi < -50 * 1000 THEN "good"
    ELSE "excellent"

\* the classification of lines 102-105
SignalQualityOf(bleFrame) ==
    IF bleFrame.rssi < -70 * 1000 \/ ~bleFrame.frameDecoded THEN "poor"
    ELSE IF bleFrame.rssi < -60 * 1000 THEN "fair"
    ELSE IF bleFrame.rssi < -50 * 1000 THEN "good"
    ELSE "excellent"

\* qualityFactor (a faulty variant: fair scales like good)
QualityFactorOf_fairAsGood(signalQuality) ==
    IF signalQuality = "excellent" THEN 100
    ELSE IF signalQuality = "poor" THEN 70 ELSE 95

\* qualityFactor, in hundredths
QualityFactorOf(signalQuality) ==
    IF signalQuality = "excellent" THEN 100
    ELSE IF signalQuality = "good" THEN 95
    ELSE IF signalQuality = "fair" THEN 85 ELSE 70

\* (Math.random() - 0.5) * amplitude, in units of 1/Unit; amplitude in tenths
Variation(r, amplitude10) ==
    ((r * 2 - RandomScale) * amplitude10 * Unit) \div (20 * RandomScale)

\* generateHeartRate (a faulty variant: the declared default stability of 0.9 is used
\* whatever the caller passes)
generateHeartRate_defaultStability(lastValue, stability, r) ==
    LET baseRate  == OrDefault(lastValue, 72)
        variation == Variation(r, 100)
    IN  Clamp(baseRate * 90 * (Unit \div 100) + variation, 50 * Unit, 150 * Unit)

\* generateHeartRate (a faulty variant: the walk is additive, the stability is not
\* applied)
generateHeartRate_additive(lastValue, stability, r) ==
    LET baseRate  == OrDefault(lastValue, 72)
        variation == Variation(r, 100)
    IN  Clamp(baseRate * Unit + variation, 50 * Unit, 150 * Unit)

\* generateHeartRate(lastValue, stability); stability in hundredths
generateHeartRate(lastValue, stability, r) ==
    LET baseRate  == OrDefault(lastValue, 72)
        variation == Variation(r, 100)
    IN  Clamp(baseRate * stability * (Unit \div 100) + variation, 50 * Unit, 150 * Unit)

\* generateBloodPressure (a faulty variant: the walk decays by 0.9 like the heart rate's)
generateBloodPressure_decaying(lastValue, rSys, rDia) ==
    LET baseSys == OrDefault(IF lastValue = undefined THEN undefined
                             ELSE <<lastValue[1].systolic>>, 120)
        baseDia == OrDefault(IF lastValue = undefined THEN undefined
                             ELSE <<lastValue[1].diastolic>>, 80)
    IN  [ systolic  |-> Clamp(baseSys * 90 * (Unit \div 100) + Variation(rSys, 80),
                              90 * Unit, 180 * Unit),
          diastolic |-> Clamp(baseDia * 90 * (Unit \div 100) + Variation(rDia, 60),
                              60 * Unit, 120 * Unit) ]

\* generateBloodPressure(lastValue); lastValue is an optional bloodPressure
generateBloodPressure(lastValue, rSys, rDia) ==
    LET baseSys == OrDefault(IF lastValue = undefined THEN undefined
                             ELSE <<lastValue[1].systolic>>, 120)
        baseDia == OrDefault(IF lastValue = undefined THEN undefined
                             ELSE <<lastValue[1].diastolic>>, 80)
    IN  [ systolic  |-> Clamp(baseSys * Unit + Variation(rSys, 80), 90 * Unit, 180 * Unit),
          diastolic |-> Clamp(baseDia * Unit + Variation(rDia, 60), 60 * Unit, 120 * Unit) ]

\* generateOxygenSat(lastValue, stability); stability in hundredths
generateOxygenSat(lastValue, stability, r) ==
    LET baseSat   == OrDefault(lastValue, 98)
        variation == Variation(r, 20)
    IN  Clamp(baseSat * stability * (Unit \div 100) + variation, 85 * Unit, 100 * Unit)

\* generateTemperature (a faulty variant: the lower clamp is missing)
generateTemperature_noLowerClamp(lastValue, r) ==
    LET baseTemp  == OrDefault(lastValue, 986)
        variation == Variation(r, 5)
    IN  IF baseTemp * (Unit \div 10) + variation > 104 * Unit THEN 104 * Unit
        ELSE baseTemp * (Unit \div 10) + variation

\* generateTemperature(lastValue); lastValue in tenths, as stored
generateTemperature(lastValue, r) ==
    LET baseTemp  == OrDefault(lastValue, 986)
        variation == Variation(r, 5)
    IN  Clamp(baseTemp * (Unit \div 10) + variation, 95 * Unit, 104 * Unit)

\* the battery level (a faulty variant: the floor of 10 is missing)
BatteryLevelOf_noFloor(fc) == 100 * 100 - fc

\* Math.max(10, 100 - (this.frameCounter * 0.01)), in hundredths
BatteryLevelOf(fc) == IF 100 * 100 - fc > 10 * 100 THEN 100 * 100 - fc ELSE 10 * 100

\* connectionStatus (a faulty variant: the thresholds are inclusive)
ConnectionStatusOf_inclusive(signalStrength) ==
    IF signalStrength >= 70 * 4000 THEN "connected"
    ELSE IF signalStrength >= 40 * 4000 THEN "weak" ELSE "disconnected"

\* signalStrength > 70 ? 'connected' : signalStrength > 40 ? 'weak' : 'disconnected'
ConnectionStatusOf(signalStrength) ==
    IF signalStrength > 70 * 4000 THEN "connected"
    ELSE IF signalStrength > 40 * 4000 THEN "weak" ELSE "disconnected"

\* lastReading?.field as an optional value
Opt(lastReading, field) ==
    IF lastReading = undefined THEN undefined ELSE <<lastReading[1][field]>>

\* the locals of extractVitalSigns at its return: lastReading is the optional
\* reading read at line 99, fc the frame counter, v the draws of Math.random()
ExtractLocals(fc, lastReading, bleFrame, v) ==
    LET signalQuality == SignalQualityOf(bleFrame)
        position      == bleFrame.position
        heartRate ==
            IF position = "chest"
            THEN generateHeartRate(Opt(lastReading, "heartRate"), 80, v.hr)
            ELSE IF position = "wrist"
            THEN generateHeartRate(Opt(lastReading, "heartRate"), 90, v.hr)
            ELSE IF position = "torso_back"
            THEN generateHeartRate(Opt(lastReading, "heartRate"), 70, v.hr)
            ELSE 72 * Unit
        oxygenSat ==
            IF position = "wrist"
            THEN generateOxygenSat(Opt(lastReading, "oxygenSaturation"), 90, v.o2)
            ELSE 98 * Unit
        bp ==
            IF position = "arm"
            THEN generateBloodPressure(Opt(lastReading, "bloodPressure"), v.sys, v.dia)
            ELSE [systolic |-> 120 * Unit, diastolic |-> 80 * Unit]
        temperature ==
            IF position \in {"head", "torso_back"}
            THEN generateTemperature(Opt(lastReading, "temperature"), v.temp)
            ELSE 986 * (Unit \div 10)
        qualityFactor == QualityFactorOf(signalQuality)
        reading ==
            [ heartRate        |-> MathRound(heartRate * qualityFactor, Unit * 100),
              bloodPressure    |->
                  [ systolic  |-> MathRound(bp.systolic * qualityFactor, Unit * 100),
                    diastolic |-> MathRound(bp.diastolic * qualityFactor, Unit * 100) ],
              oxygenSaturation |-> MathRound(oxygenSat * qualityFactor, Unit * 100),
              temperature      |-> MathRound(temperature * qualityFactor, Unit * 10),
              timestamp        |-> bleFrame.timestamp,
              signalQuality    |-> signalQuality,
              batteryLevel     |-> BatteryLevelOf(fc),
              connectionStatus |-> ConnectionStatusOf(bleFrame.signalStrength) ]
    IN  [ bleFrame      |-> bleFrame,
          lastReading   |-> lastReading,
          draws         |-> v,
          signalQuality |-> signalQuality,
          heartRate     |-> heartRate,
          systolic      |-> bp.systolic,
          diastolic     |-> bp.diastolic,
          oxygenSat     |-> oxygenSat,
          temperature   |-> temperature,
          qualityFactor |-> qualityFactor,
          frameCounter  |-> fc,
          reading       |-> reading ]

\* this.lastReadings.get(deviceId) as an optional reading
LastReadingOf(readings, deviceId) ==
    IF MapHas(readings, deviceId) THEN <<readings[deviceId]>> ELSE undefined

----------------------------------------------------------------------------
(* aggregateVitalSigns *)

RECURSIVE SumHeartRate(_)
\* hrReadings.reduce((sum, r) => sum + r.heartRate, 0)
SumHeartRate(readings) ==
    IF readings = << >> THEN 0
    ELSE Head(readings).heartRate + SumHeartRate(Tail(readings))

IsExcellent(r) == r.signalQuality = "excellent"
IsNotPoor(r)   == r.signalQuality # "poor"
HasHeartRate(r) == r.heartRate > 0
IsConnected(r) == r.connectionStatus = "connected"

\* bestReading (a faulty variant: always the first reading)
BestReadingOf_first(readings) == readings[1]

\* chestReading || goodReadings[0] || readings[0], for a non-empty readings
BestReadingOf(readings) ==
    LET excellent    == SelectSeq(readings, IsExcellent)
        goodReadings == SelectSeq(readings, IsNotPoor)
    IN  IF excellent # << >> THEN excellent[1]
        ELSE IF goodReadings # << >> THEN goodReadings[1]
        ELSE readings[1]

\* avgHeartRate (a faulty variant: the mean is taken over all readings)
AvgHeartRateOf_unfiltered(readings, bestReading) ==
    MathRound(SumHeartRate(readings), Len(readings))

\* the mean of lines 247-250
AvgHeartRateOf(readings, bestReading) ==
    LET hrReadings == SelectSeq(readings, HasHeartRate)
    IN  IF Len(hrReadings) > 0
        THEN MathRound(SumHeartRate(hrReadings), Len(hrReadings))
        ELSE bestReading.heartRate

\* signalQuality (a faulty variant: half of the readings are enough for good)
AggregateQualityOf_atLeastHalf(readings) ==
    IF 2 * Len(SelectSeq(readings, IsNotPoor)) >= Len(readings) THEN "good" ELSE "fair"

\* goodReadings.length > readings.length / 2 ? 'good' : 'fair'
AggregateQualityOf(readings) ==
    IF 2 * Len(SelectSeq(readings, IsNotPoor)) > Len(readings) THEN "good" ELSE "fair"

\* connectionStatus (a faulty variant: one connected reading is enough for connected)
AggregateConnectionOf_any(readings) ==
    IF \E k \in DOMAIN readings : IsConnected(readings[k]) THEN "connected"
    ELSE "disconnected"

\* every connected ? 'connected' : some connected ? 'weak' : 'disconnected'
AggregateConnectionOf(readings) ==
    IF \A k \in DOMAIN readings : IsConnected(readings[k]) THEN "connected"
    ELSE IF \E k \in DOMAIN readings : IsConnected(readings[k]) THEN "weak"
    ELSE "disconnected"

\* what a call that throws leaves in place of its result: reading a property
\* of undefined is a TypeError
TypeError == [threw |-> "TypeError"]

\* aggregateVitalSigns (a faulty variant: the result is stamped anew, not with the
\* timestamp of the base reading)
aggregateVitalSigns_restamped(readings) ==
    IF readings = << >> THEN TypeError
    ELSE LET bestReading == BestReadingOf(readings)
         IN  [ bestReading EXCEPT
                 !.heartRate        = AvgHeartRateOf(readings, bestReading),
                 !.timestamp        = 0,
                 !.signalQuality    = AggregateQualityOf(readings),
                 !.connectionStatus = AggregateConnectionOf(readings) ]

\* aggregateVitalSigns(readings).  For an empty readings bestReading is
\* undefined and hrReadings is empty, so line 250 reads bestReading.heartRate
\* and throws.
aggregateVitalSigns(readings) ==
    IF readings = << >> THEN TypeError
    ELSE LET bestReading == BestReadingOf(readings)
         IN  [ bestReading EXCEPT
                 !.heartRate        = AvgHeartRateOf(readings, bestReading),
                 !.signalQuality    = AggregateQualityOf(readings),
                 !.connectionStatus = AggregateConnectionOf(readings) ]

----------------------------------------------------------------------------
(* generateWBANReading *)

\* `${patientId}_${sensor.id}` (a faulty variant: the sensor's id alone)
DeviceIdOf_sensorOnly(patientId, sensor) == sensor.id

\* `${patientId}_${sensor.id}`
DeviceIdOf(patientId, sensor) == patientId \o "_" \o sensor.id

\* one pass of the forEach body of lines 210-216 for `sensor`: st holds the
\* generator's fields and the two arrays being filled, draw the draws of this
\* sensor (d for the frame, v for the vitals)
SensorStep(st, sensor, patientId, now, draw) ==
    LET deviceId == DeviceIdOf(patientId, sensor)
        fc       == IncrementFrameCounter(st.frameCounter)
        frame    == BLEFrameOf(fc, st.signalNoiseFactors, deviceId, sensor.position,
                               now, draw.d)
        locals   == ExtractLocals(fc, LastReadingOf(st.lastReadings, deviceId), frame, draw.v)
    IN  [ frameCounter  |-> fc,
          lastReadings  |-> MapSet(st.lastReadings, deviceId, locals.reading),
          signalNoiseFactors |-> st.signalNoiseFactors,
          bleFrames     |-> Append(st.bleFrames, frame),
          vitalReadings |-> Append(st.vitalReadings, locals.reading),
          steps         |-> Append(st.steps, locals) ]

\* the forEach (a faulty variant: the catalog is empty, no sensor is visited)
WBANLoop_none(i, st, patientId, now, ds) == st

RECURSIVE WBANLoop(_, _, _, _, _)
\* WBAN_POSITIONS.forEach(sensor => ...) from the i-th sensor on
WBANLoop(i, st, patientId, now, ds) ==
    IF i > Len(WBAN_POSITIONS) THEN st
    ELSE WBANLoop(i + 1, SensorStep(st, WBAN_POSITIONS[i], patientId, now, ds[i]),
                  patientId, now, ds)

IsDecoded(f) == f.frameDecoded

RECURSIVE SumRssi(_)
\* bleFrames.reduce((sum, f) => sum + f.rssi, 0)
SumRssi(frames) == IF frames = << >> THEN 0 ELSE Head(frames).rssi + SumRssi(Tail(frames))

\* networkStats (a faulty variant: the packet loss rate is cut, not rounded)
NetworkStatsOf_truncated(bleFrames) ==
    LET activeFrames == SelectSeq(bleFrames, IsDecoded)
    IN  [ totalDevices     |-> Len(WBAN_POSITIONS),
          activeDevices    |-> Len(activeFrames),
          averageRSSI      |-> MathRound(SumRssi(bleFrames), Len(bleFrames) * 100),
          packetLossRate   |-> ((Len(bleFrames) - Len(activeFrames)) * 1000)
                                   \div Len(bleFrames),
          encryptionStatus |-> "AES-256" ]

\* networkStats of lines 222-236; averageRSSI and packetLossRate in tenths
NetworkStatsOf(bleFrames) ==
    LET activeFrames == SelectSeq(bleFrames, IsDecoded)
    IN  [ totalDevices     |-> Len(WBAN_POSITIONS),
          activeDevices    |-> Len(activeFrames),
          averageRSSI      |-> MathRound(SumRssi(bleFrames), Len(bleFrames) * 100),
          packetLossRate   |-> MathRound((Len(bleFrames) - Len(activeFrames)) * 1000,
                                         Len(bleFrames)),
          encryptionStatus |-> "AES-256" ]

----------------------------------------------------------------------------
(* The methods as functions of the fields of the instance they are called  *)
(* on, for the second generator: the fields after the call and `out`, the  *)
(* value returned.                                                         *)

\* the fields of the first generator after its call
FirstAfter ==
    [ frameCounter       |-> frameCounter',
      lastReadings       |-> lastReadings',
      signalNoiseFactors |-> signalNoiseFactors' ]

\* the fields (a faulty variant: they are static, so that a call on the second
\* generator works on what the call on the first one left)
FieldsOf_static(self, other) == other

\* the fields a call on `self` reads and writes while another generator,
\* `other`, exists: lines 47-49 declare them per instance
FieldsOf(self, other) ==
    [ frameCounter       |-> self.frameCounter,
      lastReadings       |-> self.lastReadings,
      signalNoiseFactors |-> self.signalNoiseFactors ]

generateBLEFrameOn(self, deviceId, position, now, d) ==
    LET fc == IncrementFrameCounter(self.frameCounter)
    IN  [ frameCounter       |-> fc,
          lastReadings       |-> self.lastReadings,
          signalNoiseFactors |-> self.signalNoiseFactors,
          out |-> [ op    |-> "generateBLEFrame",
                    value |-> BLEFrameOf(fc, self.signalNoiseFactors, deviceId, position,
                                         now, d) ] ]

extractVitalSignsOn(self, bleFrame, v) ==
    LET locals == ExtractLocals(self.frameCounter,
                                LastReadingOf(self.lastReadings, bleFrame.deviceId),
                                bleFrame, v)
    IN  [ frameCounter       |-> self.frameCounter,
          lastReadings       |-> MapSet(self.lastReadings, bleFrame.deviceId, locals.reading),
          signalNoiseFactors |-> self.signalNoiseFactors,
          out |-> [op |-> "extractVitalSigns", value |-> locals.reading] ]

generateWBANReadingOn(self, patientId, now, ds) ==
    LET st == WBANLoop(1, [ frameCounter  |-> self.frameCounter,
                            lastReadings  |-> self.lastReadings,
                            signalNoiseFactors |-> self.signalNoiseFactors,
                            bleFrames     |-> << >>,
                            vitalReadings |-> << >>,
                            steps         |-> << >> ],
                       patientId, now, ds)
        vitals == aggregateVitalSigns(st.vitalReadings)
    IN  [ frameCounter       |-> st.frameCounter,
          lastReadings       |-> st.lastReadings,
          signalNoiseFactors |-> st.signalNoiseFactors,
          out |-> [ op    |-> "generateWBANReading",
                    value |-> IF vitals = TypeError THEN TypeError
                              ELSE [ patientId    |-> patientId,
                                     vitals       |-> vitals,
                                     bleFrames    |-> st.bleFrames,
                                     networkStats |-> NetworkStatsOf(st.bleFrames) ] ] ]

----------------------------------------------------------------------------
(* The operations. *)

\* the last element of a log, as a log
LastOf(log) == IF log = << >> THEN << >> ELSE <<log[Len(log)]>>

\* generateBLEFrame(deviceId, position), called by a client
generateBLEFrame(deviceId, position, now, d) ==
    LET fc == IncrementFrameCounter(frameCounter)
    IN  /\ frameCounter' = fc
        /\ ret' = [ op       |-> "generateBLEFrame",
                    deviceId |-> deviceId,
                    position |-> position,
                    frame    |-> BLEFrameOf(fc, signalNoiseFactors, deviceId, position, now, d) ]
        /\ calls' = [calls EXCEPT !.generateBLEFrame = @ + 1, !.directFrames = @ + 1]
        /\ UNCHANGED <<lastReadings, signalNoiseFactors, batteryLog>>
        /\ twin' = generateBLEFrameOn(FieldsOf(twin, FirstAfter), deviceId, position, now, d)

\* extractVitalSigns(bleFrame), called by a client
extractVitalSigns(bleFrame, v) ==
    \E locals \in { ExtractLocals(frameCounter,
                                   LastReadingOf(lastReadings, bleFrame.deviceId), bleFrame, v) } :
        /\ lastReadings' = MapSet(lastReadings, bleFrame.deviceId, locals.reading)
        /\ ret' = [ op      |-> "extractVitalSigns",
                    locals  |-> locals,
                    reading |-> locals.reading ]
        /\ calls' = [calls EXCEPT !.extractVitalSigns = @ + 1, !.directExtracts = @ + 1]
        /\ batteryLog' = [batteryLog EXCEPT
                             !.readings = LastOf(@) \o <<locals.reading.batteryLevel>>]
        /\ UNCHANGED <<frameCounter, signalNoiseFactors>>
        /\ twin' = extractVitalSignsOn(FieldsOf(twin, FirstAfter), bleFrame, v)

\* generateWBANReading(patientId)
generateWBANReading(patientId, now, ds) ==
    \E st \in { WBANLoop(1, [ frameCounter  |-> frameCounter,
                              lastReadings  |-> lastReadings,
                              signalNoiseFactors |-> signalNoiseFactors,
                              bleFrames     |-> << >>,
                              vitalReadings |-> << >>,
                              steps         |-> << >> ],
                         patientId, now, ds) } :
        /\ frameCounter' = st.frameCounter
        /\ lastReadings' = st.lastReadings
        /\ ret' = IF aggregateVitalSigns(st.vitalReadings) = TypeError
                  THEN \* line 219 throws: generateWBANReading returns nothing
                       [ op            |-> "generateWBANReading",
                         patientId     |-> patientId,
                         threw         |-> "TypeError",
                         vitalReadings |-> st.vitalReadings,
                         steps         |-> st.steps,
                         draws         |-> ds ]
                  ELSE [ op            |-> "generateWBANReading",
                         patientId     |-> patientId,
                         vitals        |-> aggregateVitalSigns(st.vitalReadings),
                         bleFrames     |-> st.bleFrames,
                         networkStats  |-> NetworkStatsOf(st.bleFrames),
                         vitalReadings |-> st.vitalReadings,
                         steps         |-> st.steps,
                         draws         |-> ds ]
        /\ calls' = [calls EXCEPT !.generateWBANReading = @ + 1,
                                  !.generateBLEFrame = @ + Len(WBAN_POSITIONS),
                                  !.extractVitalSigns = @ + Len(WBAN_POSITIONS)]
        /\ batteryLog' =
              [ readings   |-> LastOf(batteryLog.readings)
                                  \o [i \in DOMAIN st.vitalReadings |->
                                          st.vitalReadings[i].batteryLevel],
                aggregated |-> LastOf(batteryLog.aggregated)
                                  \o IF aggregateVitalSigns(st.vitalReadings) = TypeError
                                     THEN << >>
                                     ELSE <<aggregateVitalSigns(st.vitalReadings).batteryLevel>> ]
        /\ UNCHANGED signalNoiseFactors
        /\ twin' = generateWBANReadingOn(FieldsOf(twin, FirstAfter), patientId, now, ds)

\* aggregateVitalSigns(readings) called on its own: it touches no field
aggregateVitalSignsCall(readings) ==
    /\ ret' = [ op       |-> "aggregateVitalSigns",
                readings |-> readings,
                vitals   |-> aggregateVitalSigns(readings) ]
    /\ UNCHANGED <<frameCounter, lastReadings, signalNoiseFactors, calls, batteryLog>>
    /\ twin' = [twin EXCEPT !.out = [ op    |-> "aggregateVitalSigns",
                                      value |-> aggregateVitalSigns(readings) ]]

----------------------------------------------------------------------------
(* The inputs: clients' arguments, the clock and the draws of Math.random(). *)

\* how many frames a behaviour generates at most
MaxFrames == 13
\* how many times a client calls generateBLEFrame itself at most
MaxDirectFrames == 1
\* how many times a client calls extractVitalSigns itself at most
MaxDirectExtracts == 1

\* the draws of one generateBLEFrame call
FrameDraw(tx1, tx2, ch, rssi, ant, dec, bit) ==
    [ tx1 |-> tx1, tx2 |-> tx2, ch |-> ch, rssi |-> rssi, ant |-> ant, dec |-> dec,
      bit |-> bit, phase |-> rssi, i |-> ch, q |-> bit ]

\* the draws of one extractVitalSigns call
VitalDraw(hr, o2, sys, dia, temp) ==
    [ hr |-> hr, o2 |-> o2, sys |-> sys, dia |-> dia, temp |-> temp ]

\* a frame a client builds itself; rssi in dBm, signalStrength in percent
ClientFrame(deviceId, position, rssi, decoded, strength) ==
    [ frameNumber |-> 1, timestamp |-> 1, deviceId |-> deviceId, position |-> position,
      txPower |-> "0dbm", antenna |-> 1, frequency |-> FrequencyOf(0), channelNumber |-> 0,
      rssi |-> rssi * 1000, signalStrength |-> strength * 4000, frameDecoded |-> decoded,
      bitLength |-> 150, maxGradientUnwrappedPhase |-> [k \in 1..5 |-> 0],
      iComponent |-> [k \in 1..10 |-> 0], qComponent |-> [k \in 1..10 |-> 0] ]

\* the draws of the constructor
ConstructorDraws == { <<0, 0, 0, 0, 0, 0>>, <<999, 500, 250, 750, 100, 900>> }

Init ==
    /\ frameCounter = 0
    /\ lastReadings = << >>
    /\ \E rs \in ConstructorDraws :
          /\ signalNoiseFactors = ConstructNoiseFactors(rs)
          /\ twin = [ frameCounter       |-> 0,
                      lastReadings       |-> << >>,
                      signalNoiseFactors |-> ConstructNoiseFactors(rs),
                      out                |-> [op |-> "new"] ]
    /\ ret = [op |-> "new"]
    /\ calls = [ generateBLEFrame |-> 0, extractVitalSigns |-> 0, generateWBANReading |-> 0,
                 directFrames |-> 0, directExtracts |-> 0 ]
    /\ batteryLog = [readings |-> << >>, aggregated |-> << >>]
    /\ monitoring = [ mounted    |-> FALSE,
                      patientId  |-> "",
                      wbanData   |-> << >>,
                      alertLevel |-> "normal",
                      status     |-> << >>,
                      interval   |-> << >>,
                      intervals  |-> {},
                      timerIds   |-> 0,
                      generators |-> 0,
                      mounts     |-> 0,
                      ticks      |-> 0 ]
    /\ page = [ currentView   |-> "overview",
                loggedInStaff |-> << >>,
                login         |-> << >>,
                loginMounts   |-> 0,
                timeouts      |-> << >>,
                submits       |-> 0,
                logouts       |-> 0,
                shownBy       |-> << >> ]

----------------------------------------------------------------------------
(* Spec: a client that polls generateWBANReading for one patient and now   *)
(* and then generates and decodes a frame of its own.                      *)

\* all draws of one call equal to r
FrameDrawAll(r) == FrameDraw(r, r, r, r, r, r, r)
VitalDrawAll(r) == VitalDraw(r, r, r, r, r)

\* the draws of one generateWBANReading call: every draw is r, but for the
\* decode draw of the i-th sensor, which makes frameDecoded equal mask[i]
WBANDraws(mask, r) ==
    [ i \in DOMAIN WBAN_POSITIONS |->
        [ d |-> [FrameDrawAll(r) EXCEPT !.dec = IF mask[i] THEN 999 ELSE 0],
          v |-> VitalDrawAll(r) ] ]

\* which sensors' frames decode: the first k of them, or all but the first three
DecodeMasks ==
    { [i \in DOMAIN WBAN_POSITIONS |-> i <= k] : k \in 0..Len(WBAN_POSITIONS) }
    \cup { [i \in DOMAIN WBAN_POSITIONS |-> i > 3] }

Clock == {1000}

\* <<patientId, mask, r>> of the generateWBANReading calls: every mask with
\* the lowest and the highest draws for one patient, and a patient whose id is
\* the empty string
WBANCalls ==
    { <<"P1", mask, r>> : mask \in DecodeMasks, r \in {0, 999} }
    \cup { <<"", [i \in DOMAIN WBAN_POSITIONS |-> TRUE], 500>> }

\* <<deviceId, position, draws>> of a client's generateBLEFrame calls: a
\* catalog id, which has a noise factor, and two device ids that
\* generateWBANReading uses, with draws for each transmit power
DirectCalls ==
    { <<"chest", "chest", FrameDraw(701, 0, 0, 0, 0, 51, 0)>>,
      <<"P1_chest", "chest", FrameDraw(700, 501, 999, 999, 999, 50, 999)>>,
      <<"P1_head", "head", FrameDraw(0, 500, 290, 500, 500, 999, 500)>> }

GenerateBLEFrame ==
    /\ frameCounter < MaxFrames
    /\ calls.directFrames < MaxDirectFrames
    /\ \E call \in DirectCalls, now \in Clock :
          generateBLEFrame(call[1], call[2], now, call[3])
    /\ UNCHANGED <<monitoring, page>>

\* the client decodes the frame it has just generated
ExtractVitalSigns ==
    /\ calls.directExtracts < MaxDirectExtracts
    /\ ret.op = "generateBLEFrame"
    /\ \E r \in {0, 999} : extractVitalSigns(ret.frame, VitalDrawAll(r))
    /\ UNCHANGED <<monitoring, page>>

GenerateWBANReading ==
    /\ frameCounter + Len(WBAN_POSITIONS) <= MaxFrames
    /\ \E call \in WBANCalls, now \in Clock :
          generateWBANReading(call[1], now, WBANDraws(call[2], call[3]))
    /\ UNCHANGED <<monitoring, page>>

Next == GenerateBLEFrame \/ ExtractVitalSigns \/ GenerateWBANReading

Spec == Init /\ [][Next]_vars

----------------------------------------------------------------------------
(* SpecVitals: a client that decodes frames it has built itself, of every  *)
(* signal quality and placement, between its other calls.                  *)

\* how many calls the client makes at most
VitalsMaxCalls == 3

ClientCalls == calls.directFrames + calls.directExtracts + calls.generateWBANReading

\* <<rssi, frameDecoded, signalStrength>> on both sides of every threshold of
\* the classification, and a strong frame that failed to decode
PoorSignal == <<-71, TRUE, 36>>
FairSignal == <<-61, TRUE, 41>>
GoodSignal == <<-51, TRUE, 71>>
ExcellentSignal == <<-50, TRUE, 100>>
UndecodedSignal == <<-40, FALSE, 75>>
Signals == { PoorSignal, <<-70, TRUE, 40>>, FairSignal, <<-60, TRUE, 70>>,
             GoodSignal, ExcellentSignal, UndecodedSignal }

\* <<deviceId, position, signal, draws>> of the client's extractVitalSigns
\* calls: every signal on a placement that draws nothing, and each drawing
\* placement with two signals, one with the lowest and one with the highest draws
VitalsInputs ==
    { <<"P1_front", "torso_front", sg, VitalDrawAll(500)>> : sg \in Signals }
    \cup { <<"P1_chest", "chest", ExcellentSignal, VitalDrawAll(0)>>,
           <<"P1_chest", "chest", ExcellentSignal, VitalDrawAll(999)>>,
           <<"P1_chest", "chest", UndecodedSignal, VitalDrawAll(999)>>,
           <<"P1_wrist_l", "wrist", GoodSignal, VitalDrawAll(0)>>,
           <<"P1_wrist_l", "wrist", FairSignal, VitalDrawAll(999)>>,
           <<"P1_arm_l", "arm", ExcellentSignal, VitalDrawAll(999)>>,
           <<"P1_arm_l", "arm", PoorSignal, VitalDrawAll(0)>>,
           <<"P1_head", "head", GoodSignal, VitalDrawAll(999)>>,
           <<"P1_head", "head", UndecodedSignal, VitalDrawAll(0)>>,
           <<"P1_torso_back", "torso_back", ExcellentSignal, VitalDrawAll(0)>>,
           <<"P1_torso_back", "torso_back", FairSignal, VitalDrawAll(999)>>,
           <<"P1_torso_back", "torso_back", UndecodedSignal, VitalDrawAll(999)>> }

VitalsGenerateBLEFrame ==
    /\ ClientCalls < VitalsMaxCalls
    /\ generateBLEFrame("chest", "chest", 1000, FrameDrawAll(0))
    /\ UNCHANGED <<monitoring, page>>

VitalsExtractVitalSigns ==
    /\ ClientCalls < VitalsMaxCalls
    /\ \/ \E input \in VitalsInputs :
             extractVitalSigns(ClientFrame(input[1], input[2], input[3][1],
                                           input[3][2], input[3][3]), input[4])
       \/ /\ ret.op = "generateBLEFrame"
          /\ \E r \in {0, 999} : extractVitalSigns(ret.frame, VitalDrawAll(r))
    /\ UNCHANGED <<monitoring, page>>

VitalsGenerateWBANReading ==
    /\ ClientCalls < VitalsMaxCalls
    /\ generateWBANReading("P1", 1000, WBANDraws([i \in DOMAIN WBAN_POSITIONS |-> i > 3], 0))
    /\ UNCHANGED <<monitoring, page>>

NextVitals ==
    VitalsGenerateBLEFrame \/ VitalsExtractVitalSigns \/ VitalsGenerateWBANReading

SpecVitals == Init /\ [][NextVitals]_vars

----------------------------------------------------------------------------
(* Frame numbering and the network reading. *)

\* the catalog of section 6, in its order
CatalogIds == << "chest", "wrist_l", "wrist_r", "head", "arm_l", "torso_back" >>
CatalogPositions == << "chest", "wrist", "wrist", "head", "arm", "torso_back" >>

\* C3: the n-th generateBLEFrame call of a generator, made by a client or by
\* generateWBANReading, in any interleaving with extractVitalSigns, returns
\* frameNumber = n
C3_FrameNumberIsCallCount ==
    /\ ret.op = "generateBLEFrame" => ret.frame.frameNumber = calls.generateBLEFrame
    /\ ret.op = "generateWBANReading" =>
          \A i \in 1..6 :
              ret.bleFrames[i].frameNumber = calls.generateBLEFrame - 6 + i

\* a network reading that follows a network reading, a client's frame and its
\* decoding: its frames are the 8th to the 13th
C3_Witness ==
    /\ ret.op = "generateWBANReading"
    /\ calls.directExtracts = 1
    /\ calls.directFrames = 1
    /\ ret.bleFrames[1].frameNumber = 8
    /\ ret.bleFrames[6].frameNumber = 13

\* C4: generateWBANReading(p) returns 6 frames, the i-th for device
\* p_<i-th catalog id> at the i-th catalog position, with consecutive frame
\* numbers; the k-th call of a generator used for nothing else numbers them
\* 6(k-1)+1 .. 6k
C4_SixFramesInCatalogOrder ==
    ret.op = "generateWBANReading" =>
        /\ Len(ret.bleFrames) = 6
        /\ \A i \in 1..6 :
              /\ ret.bleFrames[i].deviceId = ret.patientId \o "_" \o CatalogIds[i]
              /\ ret.bleFrames[i].position = CatalogPositions[i]
        /\ \A i \in 1..5 :
              ret.bleFrames[i + 1].frameNumber = ret.bleFrames[i].frameNumber + 1
        /\ calls.directFrames = 0 =>
              \A i \in 1..6 :
                  ret.bleFrames[i].frameNumber = 6 * (calls.generateWBANReading - 1) + i

\* the second network reading of a generator used for nothing else
C4_Witness ==
    /\ ret.op = "generateWBANReading"
    /\ calls.generateWBANReading = 2
    /\ calls.directFrames = 0
    /\ ret.bleFrames[1].frameNumber = 7

\* (6 - active) / 6 * 100 to one decimal, in tenths, for active = 0 .. 6
PacketLossTable == << 1000, 833, 667, 500, 333, 167, 0 >>

\* C5: in every result of generateWBANReading totalDevices = 6, activeDevices
\* is the number of returned frames that decoded, packetLossRate is
\* (6 - activeDevices) / 6 * 100 to one decimal and encryptionStatus is AES-256
C5_NetworkStats ==
    ret.op = "generateWBANReading" =>
        LET active == Cardinality({i \in 1..6 : ret.bleFrames[i].frameDecoded})
        IN  /\ ret.networkStats.totalDevices = 6
            /\ ret.networkStats.activeDevices = active
            /\ ret.networkStats.packetLossRate = PacketLossTable[active + 1]
            /\ (ret.networkStats.packetLossRate = 0) <=> (active = 6)
            /\ (ret.networkStats.packetLossRate = 1000) <=> (active = 0)
            /\ ret.networkStats.encryptionStatus = "AES-256"

\* a network reading in which one frame of six failed to decode: 16.7 percent
C5_Witness ==
    /\ ret.op = "generateWBANReading"
    /\ ret.networkStats.activeDevices = 5
    /\ ret.networkStats.packetLossRate = 167

----------------------------------------------------------------------------
(* SpecBattery: a long run of the same calls with every draw in the middle *)
(* of its range, until the battery level has reached its floor.            *)

\* how many frames the long run generates at most
BatteryMaxFrames == 9010
\* how many times its client calls generateBLEFrame itself at most
BatteryDirectFrames == 1

BatteryGenerateBLEFrame ==
    /\ frameCounter < BatteryMaxFrames
    /\ calls.directFrames < BatteryDirectFrames
    /\ generateBLEFrame("P1_chest", "chest", 1000, FrameDrawAll(500))
    /\ UNCHANGED <<monitoring, page>>

BatteryExtractVitalSigns ==
    /\ ret.op = "generateBLEFrame"
    /\ extractVitalSigns(ret.frame, VitalDrawAll(500))
    /\ UNCHANGED <<monitoring, page>>

BatteryGenerateWBANReading ==
    /\ frameCounter + Len(WBAN_POSITIONS) <= BatteryMaxFrames
    /\ generateWBANReading("P1", 1000, WBANDraws([i \in DOMAIN WBAN_POSITIONS |-> TRUE], 500))
    /\ UNCHANGED <<monitoring, page>>

NextBattery ==
    BatteryGenerateBLEFrame \/ BatteryExtractVitalSigns \/ BatteryGenerateWBANReading

SpecBattery == Init /\ [][NextBattery]_vars

\* the value the source computes for a frame counter of fc: 100 - fc / 100,
\* and 10 from 9000 frames on, in hundredths
ExpectedBattery(fc) == IF fc >= 9000 THEN 1000 ELSE 10000 - fc

IsNonIncreasing(log) ==
    \A i \in DOMAIN log : i < Len(log) => log[i + 1] <= log[i]

\* C2: the batteryLevel of a reading is max(10, 100 - 0.01 * frameCounter) for
\* the frame counter at its derivation; the battery levels of successive
\* extractVitalSigns readings, and of successive aggregated readings, never
\* increase and are never below 10
C2_BatteryNonIncreasing ==
    /\ ret.op = "extractVitalSigns" =>
          ret.reading.batteryLevel = ExpectedBattery(frameCounter)
    /\ ret.op = "generateWBANReading" =>
          \A i \in 1..6 :
              ret.vitalReadings[i].batteryLevel = ExpectedBattery(frameCounter - 6 + i)
    /\ IsNonIncreasing(batteryLog.readings)
    /\ IsNonIncreasing(batteryLog.aggregated)
    /\ \A i \in DOMAIN batteryLog.readings : batteryLog.readings[i] >= 1000
    /\ \A i \in DOMAIN batteryLog.aggregated : batteryLog.aggregated[i] >= 1000

\* a network reading during which the battery level reaches its floor: the
\* reading before it was above 10, its own last reading is at 10 with more
\* than 9000 frames generated
C2_Witness ==
    /\ ret.op = "generateWBANReading"
    /\ frameCounter > 9000
    /\ batteryLog.readings[1] > 1000
    /\ batteryLog.readings[7] = 1000
    /\ Len(batteryLog.aggregated) = 2
    /\ batteryLog.aggregated[2] < batteryLog.aggregated[1]

----------------------------------------------------------------------------
(* The vitals of a reading. *)

\* the locals of every extractVitalSigns run of the last call, in order
StepsOf(r) ==
    IF r.op = "extractVitalSigns" THEN <<r.locals>>
    ELSE IF r.op = "generateWBANReading" THEN r.steps
    ELSE << >>

InBands(reading) ==
    /\ reading.heartRate >= 50 /\ reading.heartRate <= 150
    /\ reading.bloodPressure.systolic >= 90 /\ reading.bloodPressure.systolic <= 180
    /\ reading.bloodPressure.diastolic >= 60 /\ reading.bloodPressure.diastolic <= 120
    /\ reading.oxygenSaturation >= 85 /\ reading.oxygenSaturation <= 100
    /\ reading.temperature >= 950 /\ reading.temperature <= 1040

\* C1: every reading extractVitalSigns returns has heartRate in [50,150],
\* systolic in [90,180], diastolic in [60,120], oxygenSaturation in [85,100]
\* and temperature in [95,104], whatever the signal quality and the stored
\* reading (the code scales by the quality factor after clamping, so this fails)
C1_ReadingsInBands ==
    \A k \in DOMAIN StepsOf(ret) : InBands(StepsOf(ret)[k].reading)

\* C6: the signal quality is poor if rssi < -70 or the frame did not decode,
\* else fair if rssi < -60, else good if rssi < -50, else excellent: exactly one
\* class, and a failed decode is poor for every rssi
C6_SignalQualityClasses ==
    \A k \in DOMAIN StepsOf(ret) :
        LET f == StepsOf(ret)[k].bleFrame
            q == StepsOf(ret)[k].reading.signalQuality
        IN  /\ q \in {"poor", "fair", "good", "excellent"}
            /\ (q = "poor") <=> (f.rssi < -70000 \/ ~f.frameDecoded)
            /\ (q = "fair") <=> (f.frameDecoded /\ f.rssi >= -70000 /\ f.rssi < -60000)
            /\ (q = "good") <=> (f.frameDecoded /\ f.rssi >= -60000 /\ f.rssi < -50000)
            /\ (q = "excellent") <=> (f.frameDecoded /\ f.rssi >= -50000)

\* a frame with the strongest signal that failed to decode, classified poor
C6_Witness ==
    /\ ret.op = "extractVitalSigns"
    /\ ret.locals.bleFrame.rssi = -40000
    /\ ~ret.locals.bleFrame.frameDecoded
    /\ ret.reading.signalQuality = "poor"

\* the oxygen saturation a wrist frame would have before scaling if the walk
\* decayed by 0.95: between clamp(last * 0.95 - 1) and clamp(last * 0.95 + 1)
OxygenWith95(l) ==
    LET last == IF l.lastReading = << >> THEN 98 ELSE l.lastReading[1].oxygenSaturation
    IN  /\ l.oxygenSat >= Clamp(last * 9500 - 10000, 850000, 1000000)
        /\ l.oxygenSat <= Clamp(last * 9500 + 10000, 850000, 1000000)

\* C7: for a wrist frame the oxygen saturation before quality scaling is
\* clamp(last * 0.95 + u, 85, 100) with u in [-1, 1], last being the stored
\* oxygenSaturation of the device or 98 (the code passes a stability of 0.9,
\* so this fails)
C7_WristOxygenDecay95 ==
    \A k \in DOMAIN StepsOf(ret) :
        StepsOf(ret)[k].bleFrame.position = "wrist" => OxygenWith95(StepsOf(ret)[k])

\* the reading stored for a device before the step, or none
StoredBefore(deviceId) ==
    IF deviceId \in DOMAIN lastReadings THEN <<lastReadings[deviceId]>> ELSE << >>

\* the draw r as a variation of the given amplitude, in units of 1e-4
Noise(r, amplitude) == (r - 500) * amplitude * 10

\* the heart rate of l follows the walk from the reading `stored`
HeartRateWalk(l, stored) ==
    LET last == IF stored = << >> THEN 72 ELSE stored[1].heartRate
        s    == IF l.bleFrame.position = "chest" THEN 8000
                ELSE IF l.bleFrame.position = "wrist" THEN 9000 ELSE 7000
        u    == Noise(l.draws.hr, 10)
    IN  /\ u >= -50000 /\ u <= 50000
        /\ l.heartRate = Clamp(last * s + u, 500000, 1500000)

\* every extractVitalSigns run leaves its reading stored for its device
ReadingsAreStored ==
    \A k \in DOMAIN StepsOf(ret) :
        LET l == StepsOf(ret)[k]
        IN  /\ l.bleFrame.deviceId \in DOMAIN lastReadings
            /\ lastReadings[l.bleFrame.deviceId] = l.reading

\* C8: for a chest, wrist or torso_back frame the heart rate before quality
\* scaling is clamp(last * s + u, 50, 150) with s = 0.8, 0.9, 0.7 and u in
\* [-5, 5], where last is the heartRate that the previous extractVitalSigns
\* run for the same device id left stored (72 when none is stored)
C8_HeartRateWalk ==
    /\ []ReadingsAreStored
    /\ [][ \A k \in DOMAIN StepsOf(ret') :
              LET l == StepsOf(ret')[k]
              IN  l.bleFrame.position \in {"chest", "wrist", "torso_back"} =>
                      HeartRateWalk(l, StoredBefore(l.bleFrame.deviceId)) ]_vars

\* a second chest reading whose heart rate, 0.8 times the stored 63 plus the
\* draw, lies inside the band
C8_Witness ==
    /\ ret.op = "extractVitalSigns"
    /\ ret.locals.bleFrame.position = "chest"
    /\ ret.locals.lastReading # << >>
    /\ ret.locals.lastReading[1].heartRate = 63
    /\ ret.locals.heartRate = 553900

\* the pressures and the temperature of l follow the additive walks from the
\* reading `stored`
AdditiveWalks(l, stored) ==
    LET lastSys  == IF stored = << >> THEN 120 ELSE stored[1].bloodPressure.systolic
        lastDia  == IF stored = << >> THEN 80 ELSE stored[1].bloodPressure.diastolic
        lastTemp == IF stored = << >> THEN 986 ELSE stored[1].temperature
        u == Noise(l.draws.sys, 8)
        v == Noise(l.draws.dia, 6)
        w == (l.draws.temp - 500) * 5
    IN  /\ l.bleFrame.position = "arm" =>
              /\ u >= -40000 /\ u <= 40000 /\ v >= -30000 /\ v <= 30000
              /\ l.systolic = Clamp(lastSys * 10000 + u, 900000, 1800000)
              /\ l.diastolic = Clamp(lastDia * 10000 + v, 600000, 1200000)
        /\ l.bleFrame.position \in {"head", "torso_back"} =>
              /\ w >= -2500 /\ w <= 2500
              /\ l.temperature = Clamp(lastTemp * 1000 + w, 950000, 1040000)

\* C9: blood pressure and temperature walk additively, with no decay: for an
\* arm frame systolic = clamp(last + u, 90, 180), u in [-4, 4], and diastolic =
\* clamp(last + v, 60, 120), v in [-3, 3]; for a head or torso_back frame
\* temperature = clamp(last + w, 95, 104), w in [-0.25, 0.25]; last is the
\* device's stored value, or 120 / 80 / 98.6
C9_AdditiveWalks ==
    [][ \A k \in DOMAIN StepsOf(ret') :
           AdditiveWalks(StepsOf(ret')[k], StoredBefore(StepsOf(ret')[k].bleFrame.deviceId))
      ]_vars

\* a second arm reading that walks up from the stored 124 / 83
C9_Witness ==
    /\ ret.op = "extractVitalSigns"
    /\ ret.locals.bleFrame.position = "arm"
    /\ ret.locals.lastReading # << >>
    /\ ret.locals.lastReading[1].bloodPressure.systolic = 124
    /\ ret.locals.systolic > 1240000
    /\ ret.locals.diastolic > 830000

\* the factor of a class, in hundredths
FactorTable(q) ==
    CASE q = "excellent" -> 100 [] q = "good" -> 95 [] q = "fair" -> 85 [] q = "poor" -> 70

\* n is num / den rounded to the nearest integer
IsNearest(n, num, den) == 2 * n * den - den <= 2 * num /\ 2 * num < 2 * n * den + den

\* C10: every vital of a reading is its base value times the factor of the
\* frame's class (1.0, 0.95, 0.85, 0.7), rounded: heart rate, pressures and
\* oxygen saturation to the nearest integer, temperature to one decimal
C10_ScaledAndRounded ==
    \A k \in DOMAIN StepsOf(ret) :
        LET l == StepsOf(ret)[k]
            f == FactorTable(l.reading.signalQuality)
        IN  /\ IsNearest(l.reading.heartRate, l.heartRate * f, 1000000)
            /\ IsNearest(l.reading.bloodPressure.systolic, l.systolic * f, 1000000)
            /\ IsNearest(l.reading.bloodPressure.diastolic, l.diastolic * f, 1000000)
            /\ IsNearest(l.reading.oxygenSaturation, l.oxygenSat * f, 1000000)
            /\ IsNearest(l.reading.temperature, l.temperature * f, 100000)

\* a fair torso_back reading: 98.6 + 0.2495 = 98.8495 scaled by 0.85 is 84.0
C10_Witness ==
    /\ ret.op = "extractVitalSigns"
    /\ ret.reading.signalQuality = "fair"
    /\ ret.locals.bleFrame.position = "torso_back"
    /\ ret.locals.temperature = 988495
    /\ ret.reading.temperature = 840

\* round(default * factor) of each vital for the classes excellent, good, fair
\* and poor; the temperature in tenths
DefaultTable(q) ==
    CASE q = "excellent" ->
           [heartRate |-> 72, systolic |-> 120, diastolic |-> 80, oxygenSat |-> 98, temperature |-> 986]
      [] q = "good" ->
           [heartRate |-> 68, systolic |-> 114, diastolic |-> 76, oxygenSat |-> 93, temperature |-> 937]
      [] q = "fair" ->
           [heartRate |-> 61, systolic |-> 102, diastolic |-> 68, oxygenSat |-> 83, temperature |-> 838]
      [] q = "poor" ->
           [heartRate |-> 50, systolic |-> 84, diastolic |-> 56, oxygenSat |-> 69, temperature |-> 690]

\* the vitals that the switch does not assign for the placement of l are the
\* scaled defaults
UnlistedAreDefaults(l) ==
    LET p == l.bleFrame.position
        t == DefaultTable(l.reading.signalQuality)
    IN  /\ p \notin {"chest", "wrist", "torso_back"} => l.reading.heartRate = t.heartRate
        /\ p # "arm" => /\ l.reading.bloodPressure.systolic = t.systolic
                        /\ l.reading.bloodPressure.diastolic = t.diastolic
        /\ p # "wrist" => l.reading.oxygenSaturation = t.oxygenSat
        /\ p \notin {"head", "torso_back"} => l.reading.temperature = t.temperature

\* C11: a vital that the placement of the frame does not generate is
\* round(default * factor) with the defaults 72, 120 / 80, 98 and 98.6, whatever
\* reading is stored for the device; a torso_front frame takes all five
C11_UnlistedVitalsAreDefaults ==
    \A k \in DOMAIN StepsOf(ret) : UnlistedAreDefaults(StepsOf(ret)[k])

\* a second reading of a head device, poor after a good one that left a heart
\* rate of 68 stored: the heart rate is round(72 * 0.7) and the oxygen
\* saturation round(98 * 0.7)
C11_Witness ==
    /\ ret.op = "extractVitalSigns"
    /\ ret.locals.bleFrame.position = "head"
    /\ ret.locals.lastReading # << >>
    /\ ret.locals.lastReading[1].heartRate = 68
    /\ ret.reading.heartRate = 50
    /\ ret.reading.oxygenSaturation = 69

\* C12: connectionStatus is connected if signalStrength > 70, else weak if
\* signalStrength > 40, else disconnected, whatever frameDecoded and the
\* signal quality are: exactly 70 is weak, exactly 40 is disconnected
C12_ConnectionStatus ==
    \A k \in DOMAIN StepsOf(ret) :
        LET strength == StepsOf(ret)[k].bleFrame.signalStrength
            status   == StepsOf(ret)[k].reading.connectionStatus
        IN  /\ status \in {"connected", "weak", "disconnected"}
            /\ (status = "connected") <=> (strength > 280000)
            /\ (status = "weak") <=> (strength > 160000 /\ strength <= 280000)
            /\ (status = "disconnected") <=> (strength <= 160000)

\* a frame of good quality whose signalStrength is exactly 70: weak
C12_Witness ==
    /\ ret.op = "extractVitalSigns"
    /\ ret.locals.bleFrame.signalStrength = 280000
    /\ ret.reading.signalQuality = "good"
    /\ ret.reading.connectionStatus = "weak"

----------------------------------------------------------------------------
(* SpecAggregate: a client that decodes frames of every class for devices  *)
(* of its own, polls one network reading, and at last aggregates a list of *)
(* the readings stored for its devices.                                    *)

\* how many frames the client decodes at most
AggMaxExtracts == 3
\* how long a list it aggregates at most
AggMaxLen == 3
\* how many frames its network readings generate at most
AggMaxFrames == 6

\* <<deviceId, position, signal, timestamp>> of the frames the client
\* decodes: every class and every connection status
AggInputs ==
    { <<"A_chest", "chest", ExcellentSignal, 1001>>,
      <<"A_wrist", "wrist", GoodSignal, 1002>>,
      <<"A_arm", "arm", FairSignal, 1003>>,
      <<"A_head", "head", PoorSignal, 1004>>,
      <<"A_back", "torso_back", UndecodedSignal, 1005>> }

AggDeviceIds == {input[1] : input \in AggInputs}

\* the heart rates of a list as the client passes it: as stored, or the first
\* one zeroed, or none of them positive (0, -1, -2, ...)
HeartRateVariants == {"stored", "firstZero", "nonePositive"}

WithHeartRates(readings, variant) ==
    [ i \in DOMAIN readings |->
        IF variant = "nonePositive" THEN [readings[i] EXCEPT !.heartRate = 1 - i]
        ELSE IF variant = "firstZero" /\ i = 1 THEN [readings[i] EXCEPT !.heartRate = 0]
        ELSE readings[i] ]

\* the lists of at most AggMaxLen of the given device ids
ListsOf(ids) == UNION { [1..n -> ids] : n \in 0..AggMaxLen }

\* the client decodes a frame for a device it has not decoded one for
AggregateExtractVitalSigns ==
    /\ ret.op # "aggregateVitalSigns"
    /\ calls.directExtracts < AggMaxExtracts
    /\ \E input \in AggInputs :
          /\ input[1] \notin DOMAIN lastReadings
          /\ extractVitalSigns(
                 [ClientFrame(input[1], input[2], input[3][1], input[3][2], input[3][3])
                     EXCEPT !.timestamp = input[4]],
                 VitalDrawAll(500))
    /\ UNCHANGED <<monitoring, page>>

AggregateGenerateWBANReading ==
    /\ ret.op # "aggregateVitalSigns"
    /\ frameCounter + Len(WBAN_POSITIONS) <= AggMaxFrames
    /\ generateWBANReading("P1", 2000, WBANDraws([i \in DOMAIN WBAN_POSITIONS |-> i > 3], 0))
    /\ UNCHANGED <<monitoring, page>>

AggregateVitalSigns ==
    /\ ret.op # "aggregateVitalSigns"
    /\ \E ids \in ListsOf(AggDeviceIds \cap DOMAIN lastReadings),
          variant \in HeartRateVariants :
          aggregateVitalSignsCall(
              WithHeartRates([i \in DOMAIN ids |-> lastReadings[ids[i]]], variant))
    /\ UNCHANGED <<monitoring, page>>

NextAggregate ==
    AggregateExtractVitalSigns \/ AggregateGenerateWBANReading \/ AggregateVitalSigns

SpecAggregate == Init /\ [][NextAggregate]_vars

----------------------------------------------------------------------------
(* The aggregated reading. *)

\* the completed aggregations of the last call: the list passed and the result
AggregationsOf(r) ==
    IF r.op = "aggregateVitalSigns" /\ r.vitals # TypeError
    THEN << [readings |-> r.readings, vitals |-> r.vitals] >>
    ELSE IF r.op = "generateWBANReading" /\ "vitals" \in DOMAIN r
    THEN << [readings |-> r.vitalReadings, vitals |-> r.vitals] >>
    ELSE << >>

\* the least element of a non-empty set of indices
First(S) == CHOOSE i \in S : \A j \in S : i <= j

\* the index of the base reading of a non-empty list
BaseIndex(readings) ==
    LET excellent == {i \in DOMAIN readings : readings[i].signalQuality = "excellent"}
        notPoor   == {i \in DOMAIN readings : readings[i].signalQuality # "poor"}
    IN  IF excellent # {} THEN First(excellent)
        ELSE IF notPoor # {} THEN First(notPoor) ELSE 1

CopiedFrom(vitals, base) ==
    /\ vitals.bloodPressure = base.bloodPressure
    /\ vitals.oxygenSaturation = base.oxygenSaturation
    /\ vitals.temperature = base.temperature
    /\ vitals.timestamp = base.timestamp
    /\ vitals.batteryLevel = base.batteryLevel

\* C13: the base of an aggregation is the first excellent reading, else the
\* first reading that is not poor, else the first reading; the result's
\* bloodPressure, oxygenSaturation, temperature, timestamp and batteryLevel are
\* those of the base
C13_BaseReading ==
    \A k \in DOMAIN AggregationsOf(ret) :
        LET a == AggregationsOf(ret)[k]
        IN  CopiedFrom(a.vitals, a.readings[BaseIndex(a.readings)])

\* a list with no excellent reading whose first reading is poor: the base is
\* the fair reading behind it
C13_Witness ==
    /\ ret.op = "aggregateVitalSigns"
    /\ Len(ret.readings) = 3
    /\ ret.readings[1].signalQuality = "poor"
    /\ ret.readings[2].signalQuality = "fair"
    /\ ret.readings[3].signalQuality = "good"
    /\ ret.vitals.bloodPressure = ret.readings[2].bloodPressure
    /\ ret.vitals.bloodPressure # ret.readings[1].bloodPressure
    /\ ret.vitals.timestamp # ret.readings[1].timestamp

RECURSIVE PositiveHeartRates(_, _)
\* <<sum, count>> of the positive heart rates among the first n readings
PositiveHeartRates(readings, n) ==
    IF n = 0 THEN <<0, 0>>
    ELSE LET rest == PositiveHeartRates(readings, n - 1)
         IN  IF readings[n].heartRate > 0
             THEN <<rest[1] + readings[n].heartRate, rest[2] + 1>>
             ELSE rest

C15_AggregateQuality ==
    \A k \in DOMAIN AggregationsOf(ret) :
        LET a == AggregationsOf(ret)[k]
            n == Cardinality({i \in DOMAIN a.readings : a.readings[i].signalQuality # "poor"})
        IN  /\ a.vitals.signalQuality \in {"good", "fair"}
            /\ (a.vitals.signalQuality = "good") <=> (2 * n > Len(a.readings))

\* two readings, an excellent one and a poor one: exactly half, fair
C15_Witness ==
    /\ ret.op = "aggregateVitalSigns"
    /\ Len(ret.readings) = 2
    /\ ret.readings[1].signalQuality = "excellent"
    /\ ret.readings[2].signalQuality = "poor"
    /\ ret.vitals.signalQuality = "fair"

\* C16: the aggregated connectionStatus is connected if every reading is
\* connected, otherwise weak if some reading is, otherwise disconnected
C16_AggregateConnection ==
    \A k \in DOMAIN AggregationsOf(ret) :
        LET a == AggregationsOf(ret)[k]
            n == Cardinality({i \in DOMAIN a.readings :
                                 a.readings[i].connectionStatus = "connected"})
        IN  a.vitals.connectionStatus =
                IF n = Len(a.readings) THEN "connected"
                ELSE IF n > 0 THEN "weak" ELSE "disconnected"

\* a connected reading among a weak and a disconnected one: weak
C16_Witness ==
    /\ ret.op = "aggregateVitalSigns"
    /\ Len(ret.readings) = 3
    /\ ret.readings[1].connectionStatus = "disconnected"
    /\ ret.readings[2].connectionStatus = "connected"
    /\ ret.readings[3].connectionStatus = "weak"
    /\ ret.vitals.connectionStatus = "weak"

\* C17: aggregating a list of the single reading r returns r's heartRate and
\* r's bloodPressure, oxygenSaturation, temperature, timestamp and batteryLevel
C17_SingleReading ==
    \A k \in DOMAIN AggregationsOf(ret) :
        LET a == AggregationsOf(ret)[k]
        IN  Len(a.readings) = 1 =>
                /\ a.vitals.heartRate = a.readings[1].heartRate
                /\ CopiedFrom(a.vitals, a.readings[1])

\* the single poor reading of a torso_back device, stored by extractVitalSigns
\* after a network reading
C17_Witness ==
    /\ ret.op = "aggregateVitalSigns"
    /\ Len(ret.readings) = 1
    /\ "A_back" \in DOMAIN lastReadings
    /\ ret.readings[1] = lastReadings["A_back"]
    /\ ret.readings[1].signalQuality = "poor"
    /\ ret.readings[1].batteryLevel < 100 * 100
    /\ ret.vitals.heartRate = ret.readings[1].heartRate

----------------------------------------------------------------------------
(* SpecFrames: a client that generates frames with draws that reach every  *)
(* channel, antenna and transmit power, for a device that has a noise      *)
(* factor and for one that has none, around a network reading.             *)

\* how many frames the client generates at most
FramesMaxFrames == 7
\* how many of them by its own generateBLEFrame calls
FramesMaxDirect == 1

\* for every index of BLE_CHANNELS the least draw that selects it, and the
\* greatest draw
ChannelDraws ==
    { (k * RandomScale + Len(BLE_CHANNELS) - 1) \div Len(BLE_CHANNELS) :
          k \in 0..(Len(BLE_CHANNELS) - 1) } \cup {RandomScale - 1}

\* <<tx1, tx2, ant, dec, bit, rssi>>: each transmit power on both sides of its
\* threshold, each antenna, both decode outcomes, the ends of the bit length
\* and of the rssi
OtherDraws ==
    { <<701, 0, 0, 999, 0, 0>>, <<700, 501, 250, 50, 500, 500>>,
      <<0, 500, 500, 51, 990, 1>>, <<999, 999, 999, 0, 999, 999>> }

FrameDrawGrid ==
    { FrameDraw(t[1], t[2], ch, t[6], t[3], t[4], t[5]) :
          t \in OtherDraws, ch \in ChannelDraws }

FramesGenerateBLEFrame ==
    /\ frameCounter < FramesMaxFrames
    /\ calls.directFrames < FramesMaxDirect
    /\ \E target \in { <<"chest", "chest">>, <<"P1_head", "head">> }, d \in FrameDrawGrid :
          generateBLEFrame(target[1], target[2], 1000, d)
    /\ UNCHANGED <<monitoring, page>>

FramesGenerateWBANReading ==
    /\ frameCounter + Len(WBAN_POSITIONS) <= FramesMaxFrames
    /\ \E r \in {0, 250, 750, 999} :
          generateWBANReading("P1", 1000, WBANDraws([i \in DOMAIN WBAN_POSITIONS |-> TRUE], r))
    /\ UNCHANGED <<monitoring, page>>

NextFrames == FramesGenerateBLEFrame \/ FramesGenerateWBANReading

SpecFrames == Init /\ [][NextFrames]_vars

\* the frames generateBLEFrame returned during the last call
FramesOf(r) ==
    IF r.op = "generateBLEFrame" THEN <<r.frame>>
    ELSE IF r.op = "generateWBANReading" /\ "bleFrames" \in DOMAIN r THEN r.bleFrames
    ELSE << >>

\* C18: every frame generateBLEFrame returns has a channelNumber in 0 .. 39
\* other than 11, frequency 2,402,000,000 + channelNumber * 2,000,000 Hz (so
\* in 2.402 .. 2.480 GHz), an antenna in 1 .. 4, a txPower of 9dbm, 6dbm or
\* 3dbm, a bitLength in [150, 250) and signalStrength = clamp((rssi + 100) *
\* 1.25, 0, 100)
C18_FrameFields ==
    \A k \in DOMAIN FramesOf(ret) :
        LET f == FramesOf(ret)[k]
        IN  /\ f.channelNumber \in (0..39) \ {11}
            /\ f.frequency = 2402000 + f.channelNumber * 2000
            /\ f.frequency >= 2402000 /\ f.frequency <= 2480000
            /\ f.antenna \in 1..4
            /\ f.txPower \in {"9dbm", "6dbm", "3dbm"}
            /\ f.bitLength >= 150 /\ f.bitLength < 250
            /\ f.signalStrength =
                  IF (f.rssi + 100000) * 5 < 0 THEN 0
                  ELSE IF (f.rssi + 100000) * 5 > 400000 THEN 400000
                  ELSE (f.rssi + 100000) * 5
            /\ f.signalStrength >= 0 /\ f.signalStrength <= 400000

\* a frame on the last channel, at 2.480 GHz, from the fourth antenna and of
\* the greatest bit length, for the device with a noise factor of 0.9, whose
\* rssi of about -28.9 gives a signalStrength of about 88.9
C18_Witness ==
    /\ ret.op = "generateBLEFrame"
    /\ ret.frame.channelNumber = 39
    /\ ret.frame.frequency = 2480000
    /\ ret.frame.antenna = 4
    /\ ret.frame.bitLength = 249
    /\ ret.frame.txPower = "9dbm"
    /\ ret.frame.rssi > -29000
    /\ ret.frame.signalStrength > 88 * 4000

\* C20: generateWBANReading completes without throwing for every patientId,
\* the empty string included, in every state of the generator; it returns six
\* frames, and the list it passes to aggregateVitalSigns has six readings, so
\* that the base reading is defined
C20_NetworkReadingCompletes ==
    ret.op = "generateWBANReading" =>
        /\ "threw" \notin DOMAIN ret
        /\ Len(ret.bleFrames) = Len(WBAN_POSITIONS)
        /\ ret.bleFrames # << >>
        /\ Len(ret.vitalReadings) = 6
        /\ ret.vitals # TypeError
        /\ ret.vitals.timestamp = ret.vitalReadings[BaseIndex(ret.vitalReadings)].timestamp

\* a network reading for the patient with the empty id, by a generator that
\* has generated and decoded a frame for a client before
C20_Witness ==
    /\ ret.op = "generateWBANReading"
    /\ ret.patientId = ""
    /\ calls.directExtracts = 1
    /\ "threw" \notin DOMAIN ret
    /\ Len(ret.bleFrames) = 6
    /\ ret.bleFrames[1].deviceId = "_chest"

----------------------------------------------------------------------------
(* Two generators. *)

\* what the last call returned, without the locals kept beside it
ReturnOf(r) ==
    IF r.op = "generateBLEFrame" THEN [op |-> r.op, value |-> r.frame]
    ELSE IF r.op = "extractVitalSigns" THEN [op |-> r.op, value |-> r.reading]
    ELSE IF r.op = "aggregateVitalSigns" THEN [op |-> r.op, value |-> r.vitals]
    ELSE IF r.op = "generateWBANReading"
    THEN [ op    |-> r.op,
           value |-> IF "threw" \in DOMAIN r THEN TypeError
                     ELSE [ patientId    |-> r.patientId,
                            vitals       |-> r.vitals,
                            bleFrames    |-> r.bleFrames,
                            networkStats |-> r.networkStats ] ]
    ELSE [op |-> r.op]

----------------------------------------------------------------------------
(* The stored readings from one call to the next. *)

\* the device ids of the extractVitalSigns runs of a call
DevicesOf(r) == {StepsOf(r)[k].bleFrame.deviceId : k \in DOMAIN StepsOf(r)}

\* C21: an extractVitalSigns run computes from the reading that was stored for
\* the frame's device id before it, then stores the reading it returns for
\* that device id, and changes neither the readings stored for other device
\* ids nor the frame counter
C21_ReadThenWriteOnce ==
    [][ /\ \A k \in DOMAIN StepsOf(ret') :
              LET l == StepsOf(ret')[k]
              IN  /\ l.lastReading = StoredBefore(l.bleFrame.deviceId)
                  /\ l.bleFrame.deviceId \in DOMAIN lastReadings'
                  /\ lastReadings'[l.bleFrame.deviceId] = l.reading
                  /\ l.frameCounter = frameCounter + (IF ret'.op = "extractVitalSigns" THEN 0 ELSE k)
        /\ StepsOf(ret') # << >> =>
              /\ DOMAIN lastReadings' = DOMAIN lastReadings \cup DevicesOf(ret')
              /\ \A id \in DOMAIN lastReadings \ DevicesOf(ret') :
                    lastReadings'[id] = lastReadings[id]
        /\ ret'.op = "extractVitalSigns" => frameCounter' = frameCounter
      ]_vars

\* a device's second reading has replaced its first while the reading of
\* another device is still stored
C21_Witness ==
    /\ ret.op = "extractVitalSigns"
    /\ ret.locals.lastReading # << >>
    /\ ret.locals.lastReading[1] # ret.reading
    /\ lastReadings[ret.locals.bleFrame.deviceId] = ret.reading
    /\ Cardinality(DOMAIN lastReadings) = 2
    /\ frameCounter = 0

\* C24: for a chest, wrist or torso_back device the heartRate reported is at
\* most max(50, the heartRate reported by the previous run for the same device
\* id); after a reported heartRate of at most 50 the heart rate before scaling
\* is exactly 50, and the reported one is again at most 50
C24_HeartRateDriftsDown ==
    [][ \A k \in DOMAIN StepsOf(ret') :
           LET l      == StepsOf(ret')[k]
               stored == StoredBefore(l.bleFrame.deviceId)
           IN  (l.bleFrame.position \in {"chest", "wrist", "torso_back"} /\ stored # << >>) =>
                   /\ l.reading.heartRate <= (IF stored[1].heartRate > 50
                                              THEN stored[1].heartRate ELSE 50)
                   /\ stored[1].heartRate <= 50 =>
                         /\ l.heartRate = 500000
                         /\ l.reading.heartRate <= 50
      ]_vars

\* the third reading of a chest device whose second was 35: 50 before scaling
\* with the highest draw, 35 again from a frame that failed to decode
C24_Witness ==
    /\ ret.op = "extractVitalSigns"
    /\ ret.locals.bleFrame.position = "chest"
    /\ ret.locals.lastReading # << >>
    /\ ret.locals.lastReading[1].heartRate = 35
    /\ ret.locals.draws.hr = 999
    /\ ret.locals.heartRate = 500000
    /\ ret.reading.heartRate = 35

\* C27: after a poor reading of a head or torso_back device the temperature
\* stored for it is at most 72.8; the next run for it computes exactly 95
\* before scaling, whatever the draw, and reports 95.0 from an excellent frame
\* and 66.5 from a poor one
C27_PoorTemperatureFeedsBack ==
    /\ [](\A k \in DOMAIN StepsOf(ret) :
            LET l == StepsOf(ret)[k]
            IN  (l.bleFrame.position \in {"head", "torso_back"}
                     /\ l.reading.signalQuality = "poor") =>
                    /\ l.reading.temperature <= 728
                    /\ lastReadings[l.bleFrame.deviceId].temperature <= 728)
    /\ [][ \A k \in DOMAIN StepsOf(ret') :
              LET l      == StepsOf(ret')[k]
                  stored == StoredBefore(l.bleFrame.deviceId)
              IN  (l.bleFrame.position \in {"head", "torso_back"} /\ stored # << >>) =>
                      (stored[1].signalQuality = "poor" =>
                          /\ l.temperature = 950000
                          /\ l.reading.signalQuality = "excellent" => l.reading.temperature = 950
                          /\ l.reading.signalQuality = "poor" => l.reading.temperature = 665)
         ]_vars

\* a head device's excellent reading in a network reading, after a frame of
\* its own that failed to decode: 95.0
C27_Witness ==
    /\ ret.op = "generateWBANReading"
    /\ ret.steps[4].bleFrame.position = "head"
    /\ ret.steps[4].lastReading # << >>
    /\ ret.steps[4].lastReading[1].signalQuality = "poor"
    /\ ret.steps[4].lastReading[1].temperature = 688
    /\ ret.steps[4].reading.signalQuality = "excellent"
    /\ ret.steps[4].temperature = 950000
    /\ ret.steps[4].reading.temperature = 950

----------------------------------------------------------------------------
(* SpecNetwork: a client that polls generateWBANReading with rssi draws and *)
(* decode draws that differ between the sensors of one reading, and         *)
(* generates a frame for a catalog id.                                      *)

\* how many frames a behaviour generates at most
NetMaxFrames == 13
\* how many times the client calls generateBLEFrame itself at most
NetDirectFrames == 1

\* the draws of one generateWBANReading call: the i-th sensor's rssi draw is
\* rssi[i] and its decode draw makes frameDecoded equal mask[i]; every other
\* draw is 500
NetworkDraws(mask, rssi) ==
    [ i \in DOMAIN WBAN_POSITIONS |->
        [ d |-> [FrameDrawAll(500) EXCEPT !.dec = IF mask[i] THEN 999 ELSE 0,
                                          !.rssi = rssi[i]],
          v |-> VitalDrawAll(500) ] ]

\* the rssi draws of the six sensors: the lowest draw for none, five or all of
\* them and the highest for the others, or one draw for all on either side of
\* the signal strength of 70
RssiDraws ==
    { [i \in DOMAIN WBAN_POSITIONS |-> IF i <= k THEN 0 ELSE 999] : k \in {0, 5, 6} }
    \cup { [i \in DOMAIN WBAN_POSITIONS |-> r] : r \in {300, 301} }

NetworkGenerateBLEFrame ==
    /\ frameCounter < NetMaxFrames
    /\ calls.directFrames < NetDirectFrames
    /\ \E r \in {0, 999} : generateBLEFrame("chest", "chest", 1000, FrameDrawAll(r))
    /\ UNCHANGED <<monitoring, page>>

NetworkGenerateWBANReading ==
    /\ frameCounter + Len(WBAN_POSITIONS) <= NetMaxFrames
    /\ \E mask \in DecodeMasks, rssi \in RssiDraws :
          generateWBANReading("P1", 1000, NetworkDraws(mask, rssi))
    /\ UNCHANGED <<monitoring, page>>

NextNetwork == NetworkGenerateBLEFrame \/ NetworkGenerateWBANReading

SpecNetwork == Init /\ [][NextNetwork]_vars

\* C22: a frame generateWBANReading synthesizes for the sensor at a catalog
\* position is computed with the noise factor the constructor assigned to that
\* sensor: the lookup of its device id finds a factor, and the rssi is
\* -40 + u / factor for the frame's u = draw * 20 - 10
C22_NetworkFramesUseTheirFactor ==
    (ret.op = "generateWBANReading" /\ "threw" \notin DOMAIN ret) =>
        \A i \in DOMAIN ret.bleFrames :
            /\ MapHas(signalNoiseFactors, ret.bleFrames[i].deviceId)
            /\ ret.bleFrames[i].rssi
                  = -40 * 1000
                    + (((ret.draws[i].d.rssi * 20 * 1000) \div RandomScale - 10 * 1000) * NoiseScale)
                          \div signalNoiseFactors[CatalogIds[i]]

\* C26: every frame of a network reading has an rssi of at least -50 dBm, so
\* that a reading is 'excellent' when its frame decoded and 'poor' when it did
\* not; the aggregated signalQuality is 'good' exactly when more than three
\* frames decoded and 'fair' exactly when at most three did
C26_NetworkQualityClasses ==
    (ret.op = "generateWBANReading" /\ "threw" \notin DOMAIN ret) =>
        /\ \A i \in DOMAIN ret.bleFrames :
              /\ ret.bleFrames[i].rssi >= -50 * 1000
              /\ ret.vitalReadings[i].signalQuality
                    = IF ret.bleFrames[i].frameDecoded THEN "excellent" ELSE "poor"
        /\ ret.vitals.signalQuality = "good" <=> ret.networkStats.activeDevices > 3
        /\ ret.vitals.signalQuality = "fair" <=> ret.networkStats.activeDevices <= 3

\* a network reading with frames at -50 dBm exactly, four of them decoded:
\* 'good'
C26_Witness ==
    /\ ret.op = "generateWBANReading"
    /\ "threw" \notin DOMAIN ret
    /\ \E i \in DOMAIN ret.bleFrames :
          ret.bleFrames[i].rssi = -50 * 1000 /\ ret.bleFrames[i].frameDecoded
    /\ \E i \in DOMAIN ret.bleFrames :
          ret.bleFrames[i].rssi = -50 * 1000 /\ ~ret.bleFrames[i].frameDecoded
    /\ ret.networkStats.activeDevices = 4
    /\ ret.vitals.signalQuality = "good"
    /\ signalNoiseFactors["chest"] < NoiseScale

\* C28: no reading of a network reading is 'disconnected', the signal
\* strength of its frame being above 40; the aggregated connectionStatus is
\* 'disconnected' exactly when all six readings are 'weak'
C28_NetworkConnection ==
    (ret.op = "generateWBANReading" /\ "threw" \notin DOMAIN ret) =>
        /\ \A i \in DOMAIN ret.vitalReadings :
              /\ ret.bleFrames[i].signalStrength > 40 * 4000
              /\ ret.vitalReadings[i].connectionStatus # "disconnected"
        /\ ret.vitals.connectionStatus = "disconnected"
              <=> \A i \in DOMAIN ret.vitalReadings :
                      ret.vitalReadings[i].connectionStatus = "weak"

\* six readings at the signal strength of 70 exactly, all 'weak', aggregated
\* to 'disconnected'
C28_Witness ==
    /\ ret.op = "generateWBANReading"
    /\ "threw" \notin DOMAIN ret
    /\ Len(ret.vitalReadings) = 6
    /\ \A i \in DOMAIN ret.vitalReadings :
          /\ ret.bleFrames[i].signalStrength = 70 * 4000
          /\ ret.vitalReadings[i].connectionStatus = "weak"
    /\ ret.vitals.connectionStatus = "disconnected"

----------------------------------------------------------------------------
(* The PatientMonitoring component, which polls one generator. *)

\* setInterval(callback, 2000): the callback closes over the patientId of the
\* render whose effect started it
SetInterval(intervals, id, patientId) ==
    intervals \cup {[id |-> id, patientId |-> patientId]}

\* clearInterval (a faulty variant: the interval is left running)
ClearInterval_forgotten(intervals, handle) == intervals

\* clearInterval(interval), for the handle the effect kept
ClearInterval(intervals, handle) == {t \in intervals : <<t.id>> # handle}

\* the alert level (a faulty variant: a low heart rate is not looked at)
AlertLevelOf_noLowHeartRate(vitals) ==
    IF \/ vitals.heartRate > 100
       \/ vitals.bloodPressure.systolic > 140
       \/ vitals.oxygenSaturation < 95
       \/ vitals.temperature > 1004
    THEN IF vitals.heartRate > 120 \/ vitals.oxygenSaturation < 90
         THEN "critical" ELSE "warning"
    ELSE "normal"

\* the alert level the interval callback sets; temperature in tenths
AlertLevelOf(vitals) ==
    IF \/ vitals.heartRate > 100
       \/ vitals.heartRate < 60
       \/ vitals.bloodPressure.systolic > 140
       \/ vitals.oxygenSaturation < 95
       \/ vitals.temperature > 1004
    THEN IF vitals.heartRate > 120 \/ vitals.oxygenSaturation < 90
         THEN "critical" ELSE "warning"
    ELSE "normal"

\* getVitalStatus(vital, value); a temperature in tenths
getVitalStatus(vital, value) ==
    IF vital = "heartRate"
    THEN IF value < 60 \/ value > 100 THEN "warning"
         ELSE IF value < 50 \/ value > 120 THEN "critical"
         ELSE "normal"
    ELSE IF vital = "oxygenSaturation"
    THEN IF value < 95 THEN "warning"
         ELSE IF value < 90 THEN "critical"
         ELSE "normal"
    ELSE IF vital = "temperature"
    THEN IF value > 1004 \/ value < 970 THEN "warning"
         ELSE IF value > 1020 \/ value < 950 THEN "critical"
         ELSE "normal"
    ELSE "normal"

\* the statuses a render shows for the vitals of wbanData
RenderedStatus(vitals) ==
    [ heartRate        |-> getVitalStatus("heartRate", vitals.heartRate),
      oxygenSaturation |-> getVitalStatus("oxygenSaturation", vitals.oxygenSaturation),
      temperature      |-> getVitalStatus("temperature", vitals.temperature) ]

\* new BLEWBANDataGenerator(), with the constructor's draws rs
NewGenerator(rs) ==
    /\ frameCounter' = 0
    /\ lastReadings' = << >>
    /\ signalNoiseFactors' = ConstructNoiseFactors(rs)
    /\ twin' = [ frameCounter       |-> 0,
                 lastReadings       |-> << >>,
                 signalNoiseFactors |-> ConstructNoiseFactors(rs),
                 out                |-> [op |-> "new"] ]
    /\ ret' = [op |-> "new"]
    /\ calls' = [ generateBLEFrame |-> 0, extractVitalSigns |-> 0, generateWBANReading |-> 0,
                  directFrames |-> 0, directExtracts |-> 0 ]
    /\ batteryLog' = [readings |-> << >>, aggregated |-> << >>]

\* the component mounts: the state initializers run, one of them constructs
\* the generator, and the effect starts the interval
PatientMonitoringMount(patientId, rs) ==
    /\ ~monitoring.mounted
    /\ NewGenerator(rs)
    /\ monitoring' = [monitoring EXCEPT
          !.mounted    = TRUE,
          !.patientId  = patientId,
          !.wbanData   = << >>,
          !.alertLevel = "normal",
          !.status     = << >>,
          !.interval   = <<monitoring.timerIds + 1>>,
          !.intervals  = SetInterval(@, monitoring.timerIds + 1, patientId),
          !.timerIds   = @ + 1,
          !.generators = @ + 1,
          !.mounts     = @ + 1]

\* a render with another patientId: the state is kept, the effect's cleanup
\* runs and the effect starts a new interval
PatientMonitoringUpdate(patientId) ==
    /\ monitoring.mounted
    /\ patientId # monitoring.patientId
    /\ monitoring' = [monitoring EXCEPT
          !.patientId = patientId,
          !.interval  = <<monitoring.timerIds + 1>>,
          !.intervals = SetInterval(ClearInterval(@, monitoring.interval),
                                    monitoring.timerIds + 1, patientId),
          !.timerIds  = @ + 1]
    /\ UNCHANGED <<frameCounter, lastReadings, signalNoiseFactors, ret, calls, batteryLog, twin>>

\* the component unmounts: the effect's cleanup runs and the state is dropped
PatientMonitoringUnmount ==
    /\ monitoring.mounted
    /\ monitoring' = [monitoring EXCEPT
          !.mounted    = FALSE,
          !.wbanData   = << >>,
          !.alertLevel = "normal",
          !.status     = << >>,
          !.interval   = << >>,
          !.intervals  = ClearInterval(@, monitoring.interval)]
    /\ UNCHANGED <<frameCounter, lastReadings, signalNoiseFactors, ret, calls, batteryLog, twin>>

\* the callback of interval t runs: one network reading, stored as wbanData,
\* the alert level, and the render that follows
IntervalTick(t, now, ds) ==
    /\ t \in monitoring.intervals
    /\ generateWBANReading(t.patientId, now, ds)
    /\ monitoring' =
          IF "threw" \in DOMAIN ret'
          THEN [monitoring EXCEPT !.ticks = @ + 1]
          ELSE [monitoring EXCEPT
                   !.wbanData   = <<[ patientId    |-> ret'.patientId,
                                      vitals       |-> ret'.vitals,
                                      bleFrames    |-> ret'.bleFrames,
                                      networkStats |-> ret'.networkStats ]>>,
                   !.alertLevel = AlertLevelOf(ret'.vitals),
                   !.status     = <<RenderedStatus(ret'.vitals)>>,
                   !.ticks      = @ + 1]

----------------------------------------------------------------------------
(* SpecMonitoring: the component is mounted, given another patient,         *)
(* unmounted and mounted again, while its interval ticks.                   *)

\* how many intervals a behaviour starts at most
MonMaxTimers == 3
\* how many ticks a behaviour has at most
MonMaxTicks == 2

PatientIds == {"P001", "P002"}

MonitoringMount ==
    /\ monitoring.timerIds < MonMaxTimers
    /\ \E rs \in ConstructorDraws : PatientMonitoringMount("P001", rs)
    /\ UNCHANGED page

MonitoringUpdate ==
    /\ monitoring.timerIds < MonMaxTimers
    /\ \E patientId \in PatientIds : PatientMonitoringUpdate(patientId)
    /\ UNCHANGED page

MonitoringUnmount ==
    /\ PatientMonitoringUnmount
    /\ UNCHANGED page

MonitoringTick ==
    /\ monitoring.ticks < MonMaxTicks
    /\ \E t \in monitoring.intervals, r \in {0, 999},
          mask \in { [i \in DOMAIN WBAN_POSITIONS |-> TRUE],
                     [i \in DOMAIN WBAN_POSITIONS |-> FALSE],
                     [i \in DOMAIN WBAN_POSITIONS |-> i > 3] } :
          IntervalTick(t, 1000, WBANDraws(mask, r))
    /\ UNCHANGED page

NextMonitoring == MonitoringMount \/ MonitoringUpdate \/ MonitoringUnmount \/ MonitoringTick

SpecMonitoring == Init /\ [][NextMonitoring]_vars

\* C23: one generator is constructed per mount; at most one interval is
\* running at any time, the one of the current effect with the current
\* patientId, and none once the component is unmounted; a tick runs the six
\* frames and the six read-then-write steps of one generateWBANReading call,
\* each step reading what the call before it left for its device id
C23_OneIntervalOneGenerator ==
    /\ [](/\ Cardinality(monitoring.intervals) <= 1
          /\ monitoring.generators = monitoring.mounts
          /\ monitoring.mounted =>
                /\ monitoring.interval # << >>
                /\ monitoring.intervals = {[ id        |-> monitoring.interval[1],
                                             patientId |-> monitoring.patientId ]}
          /\ ~monitoring.mounted => monitoring.intervals = {})
    /\ [][ monitoring'.ticks = monitoring.ticks + 1 =>
              /\ monitoring.mounted
              /\ monitoring' = [monitoring EXCEPT !.wbanData = monitoring'.wbanData,
                                                  !.alertLevel = monitoring'.alertLevel,
                                                  !.status = monitoring'.status,
                                                  !.ticks = @ + 1]
              /\ ret'.op = "generateWBANReading"
              /\ ret'.patientId = monitoring.patientId
              /\ frameCounter' = frameCounter + 6
              /\ Len(ret'.steps) = 6
              /\ \A k \in DOMAIN ret'.steps :
                    /\ ret'.steps[k].lastReading = StoredBefore(ret'.steps[k].bleFrame.deviceId)
                    /\ lastReadings'[ret'.steps[k].bleFrame.deviceId] = ret'.steps[k].reading
         ]_vars

\* the second tick after the patient was changed, on the one interval of the
\* new patient, with the readings of the first patient still stored
C23_Witness ==
    /\ monitoring.mounted
    /\ monitoring.patientId = "P002"
    /\ monitoring.interval = <<2>>
    /\ monitoring.intervals = {[id |-> 2, patientId |-> "P002"]}
    /\ monitoring.ticks = 2
    /\ ret.op = "generateWBANReading"
    /\ ret.patientId = "P002"
    /\ "P001_chest" \in DOMAIN lastReadings
    /\ "P002_chest" \in DOMAIN lastReadings

\* C30: getVitalStatus returns 'critical' for a heartRate below 50 or above
\* 120, an oxygenSaturation below 90 and a temperature above 102 or below 95,
\* 'warning' for the other values outside the normal range, and 'normal'
\* otherwise
C30_VitalStatus ==
    monitoring.status # << >> =>
        LET v  == monitoring.wbanData[1].vitals
            st == monitoring.status[1]
        IN  /\ st.heartRate =
                  IF v.heartRate < 50 \/ v.heartRate > 120 THEN "critical"
                  ELSE IF v.heartRate < 60 \/ v.heartRate > 100 THEN "warning"
                  ELSE "normal"
            /\ st.oxygenSaturation =
                  IF v.oxygenSaturation < 90 THEN "critical"
                  ELSE IF v.oxygenSaturation < 95 THEN "warning"
                  ELSE "normal"
            /\ st.temperature =
                  IF v.temperature > 1020 \/ v.temperature < 950 THEN "critical"
                  ELSE IF v.temperature > 1004 \/ v.temperature < 970 THEN "warning"
                  ELSE "normal"

----------------------------------------------------------------------------
(* SpecPolling: the component stays mounted for one patient while its       *)
(* interval ticks.                                                          *)

\* how many ticks a behaviour has at most
PollMaxTicks == 22

PollingMount ==
    /\ \E rs \in ConstructorDraws : PatientMonitoringMount("P001", rs)
    /\ UNCHANGED page

\* a tick whose draws are all the lowest or all the highest; its frames all
\* decode, or, at every fourth tick, may all fail to
PollingTick ==
    /\ monitoring.ticks < PollMaxTicks
    /\ \E t \in monitoring.intervals, r \in {0, 999}, decoded \in BOOLEAN :
          /\ decoded \/ monitoring.ticks % 4 = 3
          /\ IntervalTick(t, 1000, WBANDraws([i \in DOMAIN WBAN_POSITIONS |-> decoded], r))
    /\ UNCHANGED page

NextPolling == PollingMount \/ PollingTick

SpecPolling == Init /\ [][NextPolling]_vars

\* C25: from the twentieth tick of a mounted component on, the aggregated
\* heartRate is below 60 and the alert level is 'warning' or 'critical'
C25_LowHeartRateAfter20Ticks ==
    (monitoring.mounted /\ monitoring.ticks >= 20 /\ monitoring.wbanData # << >>) =>
        /\ monitoring.wbanData[1].vitals.heartRate < 60
        /\ monitoring.alertLevel \in {"warning", "critical"}

\* the twentieth tick of a run of highest draws and decoded frames: the
\* heart rates of the wrists have come down to 54 and the mean to 59
C25_Witness ==
    /\ monitoring.mounted
    /\ monitoring.ticks = 20
    /\ monitoring.wbanData # << >>
    /\ monitoring.wbanData[1].vitals.heartRate = 59
    /\ lastReadings["P001_wrist_l"].heartRate = 54
    /\ lastReadings["P001_head"].heartRate = 72
    /\ monitoring.alertLevel = "warning"

----------------------------------------------------------------------------
(* The Index page and the MedicalStaffLogin form. *)

\* Index renders the monitoring view: currentView === 'monitoring' && loggedInStaff
MonitoringShown(p) == p.currentView = "monitoring" /\ p.loggedInStaff # << >>

\* the state of a MedicalStaffLogin that has just mounted, the n-th of the page
NewLoginForm(n) ==
    [ mount |-> n, staffId |-> "", password |-> "", staffType |-> "doctor",
      publicKey |-> "", isLoading |-> FALSE ]

\* the Login button is enabled
LoginEnabled(form) ==
    ~(form.isLoading \/ form.staffId = "" \/ form.password = "" \/ form.publicKey = "")

\* a tab is chosen, or a card's button of the overview pressed: the form mounts
\* when its tab is shown and unmounts when it is left
setCurrentView(view) ==
    /\ ~MonitoringShown(page)
    /\ view # page.currentView
    /\ page' = [page EXCEPT
          !.currentView = view,
          !.login       = IF view = "staff" THEN <<NewLoginForm(page.loginMounts + 1)>> ELSE << >>,
          !.loginMounts = IF view = "staff" THEN @ + 1 ELSE @]

\* the fields of the form
setStaffType(staffType) ==
    /\ page.login # << >>
    /\ page' = [page EXCEPT !.login[1].staffType = staffType]

setStaffId(staffId) ==
    /\ page.login # << >>
    /\ page' = [page EXCEPT !.login[1].staffId = staffId]

setPassword(password) ==
    /\ page.login # << >>
    /\ page' = [page EXCEPT !.login[1].password = password]

\* generateStaffKey: a key that begins with the staff type
generateStaffKey ==
    /\ page.login # << >>
    /\ page' = [page EXCEPT !.login[1].publicKey = page.login[1].staffType \o "_KEY"]

\* handleLogin, from a click on the enabled Login button: the timeout keeps the
\* staffType and staffId of the render it was started in
handleLogin ==
    /\ page.login # << >>
    /\ LoginEnabled(page.login[1])
    /\ page' =
          IF page.login[1].staffId = "" \/ page.login[1].password = ""
                \/ page.login[1].publicKey = ""
          THEN page
          ELSE [page EXCEPT
                   !.login[1].isLoading = TRUE,
                   !.timeouts = Append(@, [ mount     |-> page.login[1].mount,
                                            staffType |-> page.login[1].staffType,
                                            staffId   |-> page.login[1].staffId,
                                            logouts   |-> page.logouts ]),
                   !.submits  = @ + 1]

\* the oldest pending timeout of handleLogin fires (all have the same delay):
\* setIsLoading(false) on its form if that is still mounted, then
\* onLogin = handleStaffLogin; the monitoring view replaces the tabs, which
\* unmounts the form and mounts PatientMonitoring for patient P001
LoginTimeout(rs) ==
    /\ page.timeouts # << >>
    /\ page' = [page EXCEPT
          !.timeouts      = Tail(@),
          !.loggedInStaff = <<[ type |-> Head(page.timeouts).staffType,
                                id   |-> Head(page.timeouts).staffId ]>>,
          !.currentView   = "monitoring",
          !.login         = << >>,
          !.shownBy       = IF MonitoringShown(page) THEN @ ELSE <<Head(page.timeouts)>>]
    /\ IF MonitoringShown(page)
       THEN UNCHANGED <<frameCounter, lastReadings, signalNoiseFactors, ret, calls, batteryLog,
                        twin, monitoring>>
       ELSE PatientMonitoringMount("P001", rs)

\* handleLogout, from the Logout button of the monitoring view; the tabs
\* replace the monitoring view, which unmounts PatientMonitoring
handleLogout ==
    /\ MonitoringShown(page)
    /\ page' = [page EXCEPT
          !.loggedInStaff = << >>,
          !.currentView   = "overview",
          !.logouts       = @ + 1,
          !.shownBy       = << >>]
    /\ PatientMonitoringUnmount

----------------------------------------------------------------------------
(* SpecLogin: a user who moves between the tabs, fills in the form, logs in *)
(* and logs out.                                                            *)

\* how many logins a behaviour submits at most
LoginMaxSubmits == 2
\* how many times the form is mounted at most
LoginMaxMounts == 2

TabViews == {"overview", "patient", "staff", "security"}

LoginSetCurrentView ==
    /\ \E view \in TabViews :
          /\ view = "staff" => page.loginMounts < LoginMaxMounts
          /\ setCurrentView(view)
    /\ UNCHANGED <<frameCounter, lastReadings, signalNoiseFactors, ret, calls, batteryLog, twin,
                   monitoring>>

LoginSetStaffType ==
    /\ \E staffType \in {"doctor", "nurse"} : setStaffType(staffType)
    /\ UNCHANGED <<frameCounter, lastReadings, signalNoiseFactors, ret, calls, batteryLog, twin,
                   monitoring>>

LoginSetStaffId ==
    /\ \E staffId \in {"", "S1"} : setStaffId(staffId)
    /\ UNCHANGED <<frameCounter, lastReadings, signalNoiseFactors, ret, calls, batteryLog, twin,
                   monitoring>>

LoginSetPassword ==
    /\ \E password \in {"", "pw"} : setPassword(password)
    /\ UNCHANGED <<frameCounter, lastReadings, signalNoiseFactors, ret, calls, batteryLog, twin,
                   monitoring>>

LoginGenerateStaffKey ==
    /\ generateStaffKey
    /\ UNCHANGED <<frameCounter, lastReadings, signalNoiseFactors, ret, calls, batteryLog, twin,
                   monitoring>>

LoginHandleLogin ==
    /\ page.submits < LoginMaxSubmits
    /\ handleLogin
    /\ UNCHANGED <<frameCounter, lastReadings, signalNoiseFactors, ret, calls, batteryLog, twin,
                   monitoring>>

LoginTimeoutFires ==
    /\ page.timeouts # << >>
    /\ \E rs \in ConstructorDraws : LoginTimeout(rs)

LoginHandleLogout ==
    /\ MonitoringShown(page)
    /\ handleLogout

NextLogin ==
    \/ LoginSetCurrentView
    \/ LoginSetStaffType
    \/ LoginSetStaffId
    \/ LoginSetPassword
    \/ LoginGenerateStaffKey
    \/ LoginHandleLogin
    \/ LoginTimeoutFires
    \/ LoginHandleLogout

SpecLogin == Init /\ [][NextLogin]_vars

\* C29: the monitoring view is shown only while loggedInStaff is set, and only
\* by a login that was submitted after the last logout: a timeout of
\* handleLogin that was started before a logout does not show it again
C29_NoLoginFromBeforeLogout ==
    MonitoringShown(page) =>
        /\ page.loggedInStaff # << >>
        /\ monitoring.mounted
        /\ page.shownBy # << >>
        /\ page.shownBy[1].logouts = page.logouts

=============================================================================
